---------------------------- MODULE Spec2Model ----------------------------
(***************************************************************************)
(* MTB-DAQ acquisition firmware (MicropythonCode/main.py) with the ADXL375  *)
(* driver setters it calls and helperFunctions.clear_accel_buf.             *)
(*                                                                          *)
(* The program is one sequential thread; pc is its position in main.py.     *)
(* The environment is the record button, and the two accelerometers, which  *)
(* sample on a common clock (both are configured with the same ODR).        *)
(*                                                                          *)
(* A sample is named by its ordinal since the device entered measure mode;  *)
(* 0 names a sample that predates that (a stale, pre-session sample).       *)
(* The capture file keeps, per 7-byte frame, the device it was read from    *)
(* and, for device 1, the sample; the payload of a device 2 frame is what   *)
(* buf2_7 holds when the frame is written.                                  *)
(***************************************************************************)
EXTENDS Integers, Sequences, FiniteSets, TLC

\* ------------------------------------------------------------------ bounds
MaxTicks    == 41   \* sampling periods in a run of one session
ShortTicks  == 24   \* sampling periods in a run of several sessions
MaxFiles    == 2    \* sessions in a run of several sessions
MaxRestarts == 1    \* restarts between sessions (SpecRestart)
WarmEntries == 2    \* samples a device left configured holds at program start
MaxLag      == 1    \* sampling periods one step of the program may take

\* --------------------------------------------------------------- constants
FIFO_BUFF_COUNT == 20
FIFO_DEPTH      == 32

\* Register map and bit masks of the driver.
BW_RATE     == \h2C
POWER_CTL   == \h2D
INT_ENABLE  == \h2E
INT_MAP     == \h2F
DATA_FORMAT == \h31
FIFO_CTL    == \h38
DATAX0      == \h32
DATAX1      == \h33
DATAY0      == \h34
DATAY1      == \h35
DATAZ0      == \h36
DATAZ1      == \h37

LOW_POWER        == \b00010000
ODR_1600HZ       == \b00001110
Measure          == \b00001000
Watermark_enable == \b00000010
Watermark_map    == \b00000010
SPI              == \b01000000
INT_INVERT       == \b00100000
Justify          == \b00000100
FIFO_MODE_FIFO   == \b01000000
Trigger          == \b00100000
SELF_TEST        == \b10000000
DATA_READY_enable == \b10000000
FIFO_MODE_Bypass  == \b00000000
FIFO_MODE_Stream  == \b10000000
FIFO_MODE_Trigger == \b11000000

Devices   == {1, 2}
Registers == {BW_RATE, POWER_CTL, INT_ENABLE, INT_MAP, DATA_FORMAT, FIFO_CTL}

\* ------------------------------------------------------ integer bit algebra
RECURSIVE BitAnd(_, _)
\* Python's a & b on non-negative integers.
BitAnd(a, b) ==
    IF a = 0 \/ b = 0 THEN 0
    ELSE (a % 2) * (b % 2) + 2 * BitAnd(a \div 2, b \div 2)

\* Python's a | b on non-negative integers.
BitOr(a, b) == a + b - BitAnd(a, b)

\* Python's a & ~m on non-negative integers.
BitClear(a, m) == a - BitAnd(a, m)

\* ------------------------------------------------------- register transport
\* r is one device's register file, a function on Registers.
mem_read(r, mem_addr) == r[mem_addr]

mem_write(r, mem_addr, data) == [r EXCEPT ![mem_addr] = data]

\* ------------------------------------------------------------ driver setters
normal_power_mode(r) ==
    mem_write(r, BW_RATE, BitClear(mem_read(r, BW_RATE), LOW_POWER))

odr(r, code) ==
    mem_write(r, BW_RATE, BitOr((mem_read(r, BW_RATE) \div 16) * 16, code))

\* standby that clears the whole register.
standby_ClearsAll(r) ==
    mem_write(r, POWER_CTL, 0)

standby(r) ==
    mem_write(r, POWER_CTL, BitClear(mem_read(r, POWER_CTL), Measure))

measure(r) ==
    mem_write(r, POWER_CTL, BitOr(mem_read(r, POWER_CTL), Measure))

int_enable(r, int_mask) ==
    mem_write(r, INT_ENABLE, BitOr(mem_read(r, INT_ENABLE), int_mask))

int_disable(r, int_mask) ==
    mem_write(r, INT_ENABLE, BitClear(mem_read(r, INT_ENABLE), int_mask))

spi_4_wire(r) ==
    mem_write(r, DATA_FORMAT, BitClear(mem_read(r, DATA_FORMAT), SPI))

interrupt_active_high(r) ==
    mem_write(r, DATA_FORMAT, BitClear(mem_read(r, DATA_FORMAT), INT_INVERT))

right_justify(r) ==
    mem_write(r, DATA_FORMAT, BitClear(mem_read(r, DATA_FORMAT), Justify))

\* FIFO_Mode_FIFO that writes the mode alone.
FIFO_Mode_FIFO_Overwrite(r) ==
    mem_write(r, FIFO_CTL, FIFO_MODE_FIFO)

FIFO_Mode_FIFO(r) ==
    mem_write(r, FIFO_CTL,
              BitAnd(mem_read(r, FIFO_CTL), \b00111111) + FIFO_MODE_FIFO)

trigger_int1(r) ==
    mem_write(r, FIFO_CTL, BitClear(mem_read(r, FIFO_CTL), Trigger))

\* set_samples without the clamp.
set_samples_NoClamp(r, num) ==
    mem_write(r, FIFO_CTL, BitAnd(mem_read(r, FIFO_CTL), \b11100000) + num)

set_samples(r, num) ==
    LET n == IF num > 32 THEN 32 ELSE IF num < 0 THEN 0 ELSE num
    IN  mem_write(r, FIFO_CTL, BitAnd(mem_read(r, FIFO_CTL), \b11100000) + n)

\* The setters main.py does not call.
low_power_mode(r) ==
    mem_write(r, BW_RATE, BitOr(mem_read(r, BW_RATE), LOW_POWER))

int_map_int1(r, int_mask) ==
    mem_write(r, INT_MAP, BitClear(mem_read(r, INT_MAP), int_mask))

int_map_int2(r, int_mask) ==
    mem_write(r, INT_MAP, BitOr(mem_read(r, INT_MAP), int_mask))

begin_self_test(r) ==
    mem_write(r, DATA_FORMAT, BitOr(mem_read(r, DATA_FORMAT), SELF_TEST))

end_self_test(r) ==
    mem_write(r, DATA_FORMAT, BitClear(mem_read(r, DATA_FORMAT), SELF_TEST))

spi_3_wire(r) ==
    mem_write(r, DATA_FORMAT, BitOr(mem_read(r, DATA_FORMAT), SPI))

interrupt_active_low(r) ==
    mem_write(r, DATA_FORMAT, BitOr(mem_read(r, DATA_FORMAT), INT_INVERT))

left_justify(r) ==
    mem_write(r, DATA_FORMAT, BitOr(mem_read(r, DATA_FORMAT), Justify))

FIFO_Mode_Bypass(r) ==
    mem_write(r, FIFO_CTL,
              BitAnd(mem_read(r, FIFO_CTL), \b00111111) + FIFO_MODE_Bypass)

FIFO_Mode_Stream(r) ==
    mem_write(r, FIFO_CTL,
              BitAnd(mem_read(r, FIFO_CTL), \b00111111) + FIFO_MODE_Stream)

FIFO_Mode_Trigger(r) ==
    mem_write(r, FIFO_CTL,
              BitAnd(mem_read(r, FIFO_CTL), \b00111111) + FIFO_MODE_Trigger)

trigger_int2(r) ==
    mem_write(r, FIFO_CTL, BitOr(mem_read(r, FIFO_CTL), Trigger))

\* ---------------------------------------------------------------- variables
VARIABLES
    pc,          \* position of the program in main.py
    btn,         \* REC_BTN.value(): TRUE released, FALSE pressed
    led,         \* REC_LED pin: 1 the LED is off, 0 it is on
    display,     \* what the 14-segment display shows
    file_count,  \* index of the last session
    countFile,   \* lines of /sd/count/count.txt, each a sequence of digits
    files,       \* capture files on the card: index -> sequence of frames
    file,        \* index of the open capture file, 0 when none is open
    i,           \* loop index of the batch
    count,       \* clear_accel_buf's count
    buf1_7,      \* sample last read from device 1
    buf2_7,      \* sample last read from device 2
    regs,        \* device -> register file
    fifo,        \* device -> queued samples, oldest first
    dataReg,     \* device -> sample in the data registers
    produced,    \* device -> samples produced since it entered measure mode
    overrun,     \* device -> a sample was lost to a full FIFO since then
    ticks,       \* sampling clock ticks so far
    run,         \* the extent of this run: ticks and sessions it may take
    lag,         \* ticks since the program last stepped or was parked
    restarts,    \* the index on the card at each restart so far
    heldWrite,   \* a frame was written since the button was last pressed
                 \* and it has been held since (history)
    seenHeld,    \* the button has been held since the program last saw
                 \* it pressed (history)
    cd,          \* level of the card-detect pin CD, TRUE with no card in
    cs,          \* device -> level of its chip-select pin, 0 low, 1 high
    tx,          \* the register transaction in progress on the bus
    ret,         \* what the data getters of the driver last returned
    txn,         \* transactions issued in the current section (SpecBus)
    calls,       \* the setter calls made on the driver (SpecSetters)
    conv,        \* a raw word and what the conversions made of it
    logFile,     \* decode_data: the capture being read, and how far
    dataFile,    \* decode_data: the text file being written
    time,        \* decode_data: time of the next row, in microseconds
    deltaTime,   \* decode_data: time between two rows, in microseconds
    fault        \* the fault that ended the program, "none" while it runs

vars == <<pc, btn, led, display, file_count, countFile, files, file, i, count,
          buf1_7, buf2_7, regs, fifo, dataReg, produced, overrun, ticks,
          run, lag, restarts, heldWrite, seenHeld, cd, cs, tx, ret, txn,
          calls, conv,
          logFile, dataFile, time, deltaTime, fault>>

progVars == <<led, display, file_count, countFile, files, file, i, count,
              buf1_7, buf2_7>>
devVars  == <<regs, fifo, dataReg, produced, overrun>>
offVars  == <<conv, logFile, dataFile, time, deltaTime, fault>>
busVars  == <<cs, tx, ret, txn, calls, offVars>>
sideVars == <<seenHeld, cd>>
envVars  == <<btn, ticks, run, restarts, heldWrite, sideVars, busVars>>

\* ------------------------------------------------------------ decimal text
RECURSIVE str(_)
\* str(n) for n >= 0, as the sequence of its decimal digits.
str(n) == IF n < 10 THEN <<n>> ELSE Append(str(n \div 10), n % 10)

RECURSIVE int(_)
\* int(line) for a line of decimal digits.
int(s) == IF s = <<>> THEN 0
          ELSE 10 * int(SubSeq(s, 1, Len(s) - 1)) + s[Len(s)]

\* ------------------------------------------------------------- the devices
\* Bits 7..6 of FIFO_CTL select the mode; 00 is bypass, in which the FIFO
\* stays empty and the data registers hold the newest sample.
FifoBypassed(r) == r[FIFO_CTL] \div 64 = 0

\* Bits 4..0 of FIFO_CTL: the watermark count.
Samples(r) == r[FIFO_CTL] % 32

\* The entries field of FIFO_STATUS (get_FIFO_STATUS() & 0b00111111).
Entries(d) == IF FifoBypassed(regs[d]) THEN 0 ELSE Len(fifo[d])

Measuring(d) == BitAnd(regs[d][POWER_CTL], Measure) # 0

\* The watermark interrupt of device 1 as seen on pin ADXL1_INT1.
WatermarkActive ==
    /\ BitAnd(regs[1][INT_ENABLE], Watermark_enable) # 0
    /\ BitAnd(regs[1][INT_MAP], Watermark_map) = 0
    /\ ~FifoBypassed(regs[1])
    /\ Len(fifo[1]) >= Samples(regs[1])

ADXL1_INT1 ==
    IF BitAnd(regs[1][DATA_FORMAT], INT_INVERT) = 0
    THEN WatermarkActive ELSE ~WatermarkActive

\* A burst read of the data registers returns the oldest queued sample and
\* removes it; with nothing queued it repeats the last sample.
DataOut(d) ==
    IF Entries(d) = 0 THEN dataReg[d] ELSE Head(fifo[d])

FifoAfterRead(d) ==
    IF Entries(d) = 0 THEN fifo[d] ELSE Tail(fifo[d])

\* Register values at power-on, and of a device an earlier run or console
\* session left in FIFO mode.
ResetRegs == [a \in Registers |-> IF a = BW_RATE THEN \h0A ELSE 0]
WarmRegs  == [ResetRegs EXCEPT ![FIFO_CTL] = FIFO_MODE_FIFO]

\* One period of the sampling clock: every device in measure mode produces
\* a sample.  A full FIFO drops it.
SampleDevice(d) ==
    IF ~Measuring(d) THEN
        [f |-> fifo[d], r |-> dataReg[d], p |-> produced[d], o |-> overrun[d]]
    ELSE IF FifoBypassed(regs[d]) THEN
        [f |-> fifo[d], r |-> produced[d] + 1, p |-> produced[d] + 1,
         o |-> overrun[d]]
    ELSE IF Len(fifo[d]) < FIFO_DEPTH THEN
        [f |-> Append(fifo[d], produced[d] + 1), r |-> dataReg[d],
         p |-> produced[d] + 1, o |-> overrun[d]]
    ELSE
        [f |-> fifo[d], r |-> dataReg[d], p |-> produced[d] + 1, o |-> TRUE]

\* The program is parked in one of its busy-wait loops.
Blocked ==
    \/ pc = "wait_press" /\ btn = TRUE
    \/ pc = "wait_release" /\ btn = FALSE
    \/ pc = "rec_wait" /\ ~ADXL1_INT1
    \/ pc = "stop_release" /\ btn = FALSE

Tick ==
    /\ ticks < run.ticks
    /\ \E d \in Devices : Measuring(d)
    /\ Blocked \/ lag < MaxLag
    /\ ticks' = ticks + 1
    /\ lag' = IF Blocked THEN 0 ELSE lag + 1
    /\ fifo'     = [d \in Devices |-> SampleDevice(d).f]
    /\ dataReg'  = [d \in Devices |-> SampleDevice(d).r]
    /\ produced' = [d \in Devices |-> SampleDevice(d).p]
    /\ overrun'  = [d \in Devices |-> SampleDevice(d).o]
    /\ UNCHANGED <<pc, progVars, regs, btn, run, restarts, sideVars, heldWrite,
                   busVars>>

\* ------------------------------------------------------------- the button
Press ==
    /\ btn = TRUE
    /\ btn' = FALSE
    /\ heldWrite' = FALSE
    /\ UNCHANGED <<pc, progVars, devVars, ticks, run, lag, restarts, sideVars,
                   busVars>>

Release ==
    /\ btn = FALSE
    /\ btn' = TRUE
    /\ heldWrite' = FALSE
    /\ seenHeld' = FALSE
    /\ UNCHANGED <<pc, progVars, devVars, ticks, run, lag, restarts, cd,
                   busVars>>

\* ------------------------------------------------------------ the display
\* Display.text('    '); Display.blink_rate(0); Display.show()
Blank == [text |-> "    ", number |-> -1, blink |-> 0]

\* Display.text('    '); Display.number(n); Display.blink_rate(0); Display.show()
ShowNumber(n) == [text |-> "    ", number |-> n, blink |-> 0]

\* A run is either one long session, in which the FIFO can fill up and
\* several batches are drained, or several short sessions.
Runs == {[ticks |-> MaxTicks, files |-> 1],
         [ticks |-> ShortTicks, files |-> MaxFiles]}

\* No transaction is in progress; no getter has returned yet.
NoTx == [dev |-> 0, call |-> "none", axis |-> 0, kind |-> "none", addr |-> 0,
         cmd |-> 0, len |-> 0, step |-> "none", rest |-> <<>>, got |-> <<>>]

NoAcc == [axis |-> -1, value |-> 0, lsbOf |-> 0, msbOf |-> 0]

NoRet == [acc |-> NoAcc, naive |-> NoAcc]

\* Nothing has been converted yet.
NoConv == [v |-> -1, driver |-> 0, helper |-> 0, live |-> 0, offline |-> 0,
           odr |-> 0]

\* A file that is not open.
NoFile == [name |-> <<>>, data |-> <<>>, pos |-> 0, open |-> FALSE]

\* decode_data has not been called and nothing has failed.
NoOffline ==
    /\ conv = NoConv
    /\ logFile = NoFile
    /\ dataFile = NoFile
    /\ time = 0
    /\ deltaTime = 0
    /\ fault = "none"

\* ------------------------------------------------------------------- Init
\* SPI1_CS1 and SPI1_CS2 are made outputs without a value (main.py lines
\* 153-155): they drive the level the port already held, low after a
\* power-on reset.
Init ==
    /\ pc = "boot"
    /\ btn = TRUE
    /\ led = 0
    /\ display = Blank
    /\ file_count = 0
    /\ countFile = <<>>
    /\ files = <<>>
    /\ file = 0
    /\ i = 0
    /\ count = 0
    /\ buf1_7 = 0
    /\ buf2_7 = 0
    /\ \E warm \in BOOLEAN :
          /\ regs = [d \in Devices |-> IF warm THEN WarmRegs ELSE ResetRegs]
          /\ fifo = [d \in Devices |->
                        IF warm THEN [k \in 1..WarmEntries |-> 0] ELSE <<>>]
    /\ dataReg  = [d \in Devices |-> 0]
    /\ produced = [d \in Devices |-> 0]
    /\ overrun  = [d \in Devices |-> FALSE]
    /\ ticks = 0
    /\ run \in Runs
    /\ lag = 0
    /\ restarts = <<>>
    /\ seenHeld = FALSE
    /\ cd = FALSE
    /\ heldWrite = FALSE
    /\ cs \in [Devices -> {0, 1}]
    /\ tx = NoTx
    /\ ret = NoRet
    /\ txn = 0
    /\ calls = <<>>
    /\ NoOffline

\* ------------------------------------------------------- register writes
\* The program leaves device d's registers as r.  Samples are numbered from
\* the moment the device enters measure mode; what it holds when it enters
\* or leaves measure mode no longer belongs to a running session.
WriteRegs(d, r) ==
    /\ regs' = [regs EXCEPT ![d] = r]
    /\ IF (BitAnd(r[POWER_CTL], Measure) # 0) = Measuring(d)
       THEN UNCHANGED <<fifo, dataReg, produced, overrun>>
       ELSE /\ fifo' = [fifo EXCEPT ![d] = [k \in 1..Len(@) |-> 0]]
            /\ dataReg' = [dataReg EXCEPT ![d] = 0]
            /\ produced' = [produced EXCEPT ![d] = 0]
            /\ overrun' = [overrun EXCEPT ![d] =
                              IF Measuring(d) THEN @ ELSE FALSE]

\* ---------------------------------------------------------------- startup
\* The card is present and mounts; count.txt is created with '0\n' when it
\* does not exist (open(..., 'x')).
Boot ==
    /\ pc = "boot"
    /\ lag' = 0
    /\ countFile' = IF countFile = <<>> THEN <<str(0)>> ELSE countFile
    /\ display' = Blank
    /\ pc' = "setup1"
    /\ UNCHANGED <<led, file_count, files, file, i, count, buf1_7, buf2_7,
                   devVars, envVars>>

\* ADXL375_1 = ADXL375(spi_1, SPI1_CS1), whose constructor drives the
\* chip-select high, and ADXL375_1.standby()
Setup1 ==
    /\ pc = "setup1"
    /\ lag' = 0
    /\ cs' = [cs EXCEPT ![1] = 1]
    /\ WriteRegs(1, standby(regs[1]))
    /\ pc' = "config1"
    /\ UNCHANGED <<progVars, btn, ticks, run, restarts, sideVars, heldWrite, tx, ret,
                   txn, calls, offVars>>

\* The nine configuration calls on ADXL375_1 that follow.
Config1 ==
    /\ pc = "config1"
    /\ lag' = 0
    /\ WriteRegs(1,
          set_samples(
            interrupt_active_high(
              trigger_int1(
                FIFO_Mode_FIFO(
                  int_disable(
                    right_justify(
                      spi_4_wire(
                        normal_power_mode(
                          odr(regs[1], ODR_1600HZ)))),
                    Watermark_enable)))),
            FIFO_BUFF_COUNT))
    /\ pc' = "setup2"
    /\ UNCHANGED <<progVars, envVars>>

\* ADXL375_2 = ADXL375(spi_1, SPI1_CS2) and ADXL375_2.standby()
Setup2 ==
    /\ pc = "setup2"
    /\ lag' = 0
    /\ cs' = [cs EXCEPT ![2] = 1]
    /\ WriteRegs(2, standby(regs[2]))
    /\ pc' = "config2"
    /\ UNCHANGED <<progVars, btn, ticks, run, restarts, sideVars, heldWrite, tx, ret,
                   txn, calls, offVars>>

\* Config2 that also enables the watermark interrupt of device 2.
Config2_WithInterrupt ==
    /\ pc = "config2"
    /\ lag' = 0
    /\ WriteRegs(2,
          int_enable(
            right_justify(
              spi_4_wire(
                normal_power_mode(
                  odr(regs[2], ODR_1600HZ)))),
            Watermark_enable))
    /\ pc' = "getcount"
    /\ UNCHANGED <<progVars, envVars>>

\* The four configuration calls on ADXL375_2 that follow.
Config2 ==
    /\ pc = "config2"
    /\ lag' = 0
    /\ WriteRegs(2,
          right_justify(
            spi_4_wire(
              normal_power_mode(
                odr(regs[2], ODR_1600HZ)))))
    /\ pc' = "getcount"
    /\ UNCHANGED <<progVars, envVars>>

\* GetFileCount that takes the first line of count.txt.
GetFileCount_FirstLine ==
    /\ pc = "getcount"
    /\ lag' = 0
    /\ file_count' = int(countFile[1])
    /\ pc' = "initled"
    /\ UNCHANGED <<led, display, countFile, files, file, i, count, buf1_7,
                   buf2_7, devVars, envVars>>

GetFileCount ==
    /\ pc = "getcount"
    /\ lag' = 0
    /\ file_count' = int(countFile[Len(countFile)])
    /\ pc' = "initled"
    /\ UNCHANGED <<led, display, countFile, files, file, i, count, buf1_7,
                   buf2_7, devVars, envVars>>

InitLed ==
    /\ pc = "initled"
    /\ lag' = 0
    /\ led' = 1
    /\ display' = ShowNumber(file_count)
    /\ pc' = "wait_press"
    /\ UNCHANGED <<file_count, countFile, files, file, i, count, buf1_7,
                   buf2_7, devVars, envVars>>

\* ------------------------------------------------------------------- idle
WaitPress ==
    /\ pc = "wait_press"
    /\ lag' = 0
    /\ file_count < run.files
    /\ btn = FALSE
    /\ seenHeld' = TRUE
    /\ pc' = "wait_release"
    /\ UNCHANGED <<progVars, devVars, btn, ticks, run, restarts, heldWrite,
                   cd, busVars>>

WaitRelease ==
    /\ pc = "wait_release"
    /\ lag' = 0
    /\ btn = TRUE
    /\ pc' = "led_on"
    /\ UNCHANGED <<progVars, devVars, envVars>>

\* ----------------------------------------------------------------- arming
LedOn ==
    /\ pc = "led_on"
    /\ lag' = 0
    /\ led' = 0
    /\ pc' = "save_count"
    /\ UNCHANGED <<display, file_count, countFile, files, file, i, count,
                   buf1_7, buf2_7, devVars, envVars>>

\* SaveCount that keeps the new index in memory only.
SaveCount_NotPersisted ==
    /\ pc = "save_count"
    /\ lag' = 0
    /\ file_count' = file_count + 1
    /\ pc' = "arm_display"
    /\ UNCHANGED <<led, display, countFile, files, file, i, count, buf1_7,
                   buf2_7, devVars, envVars>>

SaveCount ==
    /\ pc = "save_count"
    /\ lag' = 0
    /\ file_count' = file_count + 1
    /\ countFile' = Append(countFile, str(file_count + 1))
    /\ pc' = "arm_display"
    /\ UNCHANGED <<led, display, files, file, i, count, buf1_7, buf2_7,
                   devVars, envVars>>

ArmDisplay ==
    /\ pc = "arm_display"
    /\ lag' = 0
    /\ display' = ShowNumber(file_count)
    /\ pc' = "arm_standby1"
    /\ UNCHANGED <<led, file_count, countFile, files, file, i, count, buf1_7,
                   buf2_7, devVars, envVars>>

\* ArmStandby1 that starts the device instead of stopping it.
ArmStandby1_Measure ==
    /\ pc = "arm_standby1"
    /\ lag' = 0
    /\ WriteRegs(1, measure(regs[1]))
    /\ count' = 0
    /\ pc' = "clear"
    /\ UNCHANGED <<led, display, file_count, countFile, files, file, i,
                   buf1_7, buf2_7, envVars>>

ArmStandby1 ==
    /\ pc = "arm_standby1"
    /\ lag' = 0
    /\ WriteRegs(1, standby(regs[1]))
    /\ count' = 0
    /\ pc' = "clear"
    /\ UNCHANGED <<led, display, file_count, countFile, files, file, i,
                   buf1_7, buf2_7, envVars>>

\* ClearAccelBuf that stops with one sample still queued.
ClearAccelBuf_LeavesOne ==
    /\ pc = "clear"
    /\ lag' = 0
    /\ \/ /\ Entries(1) > 1
          /\ dataReg' = [dataReg EXCEPT ![1] = DataOut(1)]
          /\ fifo' = [fifo EXCEPT ![1] = FifoAfterRead(1)]
          /\ count' = count + 1
          /\ pc' = "clear"
       \/ /\ Entries(1) <= 1
          /\ pc' = "arm_standby2"
          /\ UNCHANGED <<count, fifo, dataReg>>
    /\ UNCHANGED <<led, display, file_count, countFile, files, file, i,
                   buf1_7, buf2_7, regs, produced, overrun, envVars>>

\* One pass of clear_accel_buf(ADXL375_1)'s loop.
ClearAccelBuf ==
    /\ pc = "clear"
    /\ lag' = 0
    /\ \/ /\ Entries(1) # 0
          /\ dataReg' = [dataReg EXCEPT ![1] = DataOut(1)]
          /\ fifo' = [fifo EXCEPT ![1] = FifoAfterRead(1)]
          /\ count' = count + 1
          /\ pc' = "clear"
       \/ /\ Entries(1) = 0
          /\ pc' = "arm_standby2"
          /\ UNCHANGED <<count, fifo, dataReg>>
    /\ UNCHANGED <<led, display, file_count, countFile, files, file, i,
                   buf1_7, buf2_7, regs, produced, overrun, envVars>>

ArmStandby2 ==
    /\ pc = "arm_standby2"
    /\ lag' = 0
    /\ WriteRegs(2, standby(regs[2]))
    /\ pc' = "open_file"
    /\ UNCHANGED <<progVars, envVars>>

\* file = open('data' + str(file_count) + '.bin', 'wb')
OpenFile ==
    /\ pc = "open_file"
    /\ lag' = 0
    /\ files' = [k \in DOMAIN files \cup {int(str(file_count))} |->
                    IF k = int(str(file_count)) THEN <<>> ELSE files[k]]
    /\ file' = int(str(file_count))
    /\ pc' = "int_enable"
    /\ UNCHANGED <<led, display, file_count, countFile, i, count, buf1_7,
                   buf2_7, devVars, envVars>>

\* -------------------------------------------------------------- recording
IntEnable ==
    /\ pc = "int_enable"
    /\ lag' = 0
    /\ WriteRegs(1, int_enable(regs[1], Watermark_enable))
    /\ pc' = "measure1"
    /\ UNCHANGED <<progVars, envVars>>

Measure1 ==
    /\ pc = "measure1"
    /\ lag' = 0
    /\ WriteRegs(1, measure(regs[1]))
    /\ pc' = "measure2"
    /\ UNCHANGED <<progVars, envVars>>

Measure2 ==
    /\ pc = "measure2"
    /\ lag' = 0
    /\ WriteRegs(2, measure(regs[2]))
    /\ pc' = "rec_btn"
    /\ UNCHANGED <<progVars, envVars>>

\* while REC_BTN.value() == True:
\* RecBtn with the polarity of the button inverted.
RecBtn_Inverted ==
    /\ pc = "rec_btn"
    /\ lag' = 0
    /\ \/ /\ btn = FALSE
          /\ pc' = "rec_wait"
       \/ /\ btn = TRUE
          /\ pc' = "stop_release"
    /\ UNCHANGED <<progVars, devVars, envVars>>

\* RecBtn that misses a press sampled after the first batch.
RecBtn_LatePress ==
    /\ pc = "rec_btn"
    /\ lag' = 0
    /\ \/ /\ btn = TRUE \/ Len(files[file]) = 2 * FIFO_BUFF_COUNT
          /\ pc' = "rec_wait"
       \/ /\ btn = FALSE /\ Len(files[file]) # 2 * FIFO_BUFF_COUNT
          /\ pc' = "stop_release"
    /\ UNCHANGED <<progVars, devVars, envVars>>

RecBtn ==
    /\ pc = "rec_btn"
    /\ lag' = 0
    /\ \/ /\ btn = TRUE
          /\ pc' = "rec_wait"
          /\ UNCHANGED seenHeld
       \/ /\ btn = FALSE
          /\ pc' = "stop_release"
          /\ seenHeld' = TRUE
    /\ UNCHANGED <<progVars, devVars, btn, ticks, run, restarts, heldWrite,
                   cd, busVars>>

\* WaitInt1 that a press of the button cancels.
WaitInt1_Cancellable ==
    /\ pc = "rec_wait"
    /\ lag' = 0
    /\ \/ /\ ADXL1_INT1
          /\ i' = 0
          /\ pc' = "rd1"
       \/ /\ ~ADXL1_INT1
          /\ btn = FALSE
          /\ i' = i
          /\ pc' = "stop_release"
    /\ UNCHANGED <<led, display, file_count, countFile, files, file, count,
                   buf1_7, buf2_7, devVars, envVars>>

\* WaitInt1 that starts the batch without waiting for the interrupt.
WaitInt1_NoWait ==
    /\ pc = "rec_wait"
    /\ lag' = 0
    /\ i' = 0
    /\ pc' = "rd1"
    /\ UNCHANGED <<led, display, file_count, countFile, files, file, count,
                   buf1_7, buf2_7, devVars, envVars>>

\* while ADXL1_INT1.value() == False: pass
WaitInt1 ==
    /\ pc = "rec_wait"
    /\ lag' = 0
    /\ ADXL1_INT1
    /\ i' = 0
    /\ pc' = "rd1"
    /\ UNCHANGED <<led, display, file_count, countFile, files, file, count,
                   buf1_7, buf2_7, devVars, envVars>>

\* Read1 whose read takes two samples out of the FIFO.
Read1_PopsTwo ==
    /\ pc = "rd1"
    /\ lag' = 0
    /\ buf1_7' = DataOut(1)
    /\ dataReg' = [dataReg EXCEPT ![1] = DataOut(1)]
    /\ fifo' = [fifo EXCEPT ![1] = IF Len(@) > 1 THEN Tail(Tail(@)) ELSE <<>>]
    /\ pc' = "rd2"
    /\ UNCHANGED <<led, display, file_count, countFile, files, file, i, count,
                   buf2_7, regs, produced, overrun, envVars>>

\* SPI1_CS1.low(); spi_1.send_recv(CMD_RD, buf1_7); SPI1_CS1.high()
Read1 ==
    /\ pc = "rd1"
    /\ lag' = 0
    /\ buf1_7' = DataOut(1)
    /\ dataReg' = [dataReg EXCEPT ![1] = DataOut(1)]
    /\ fifo' = [fifo EXCEPT ![1] = FifoAfterRead(1)]
    /\ pc' = "rd2"
    /\ UNCHANGED <<led, display, file_count, countFile, files, file, i, count,
                   buf2_7, regs, produced, overrun, envVars>>

\* SPI1_CS2.low(); spi_1.send_recv(CMD_RD, buf2_7); SPI1_CS2.high()
Read2 ==
    /\ pc = "rd2"
    /\ lag' = 0
    /\ buf2_7' = DataOut(2)
    /\ dataReg' = [dataReg EXCEPT ![2] = DataOut(2)]
    /\ fifo' = [fifo EXCEPT ![2] = FifoAfterRead(2)]
    /\ pc' = "wr1"
    /\ UNCHANGED <<led, display, file_count, countFile, files, file, i, count,
                   buf1_7, regs, produced, overrun, envVars>>

\* file.write(buf1_7)
Write1 ==
    /\ pc = "wr1"
    /\ lag' = 0
    /\ files' = [files EXCEPT ![file] = Append(@, <<1, buf1_7>>)]
    /\ heldWrite' = (btn = FALSE)
    /\ pc' = "wr2"
    /\ UNCHANGED <<led, display, file_count, countFile, file, i, count,
                   buf1_7, buf2_7, devVars, btn, ticks, run, restarts, sideVars,
                   busVars>>

\* Write2 with the loop one iteration short.
Write2_ShortLoop ==
    /\ pc = "wr2"
    /\ lag' = 0
    /\ files' = [files EXCEPT ![file] = Append(@, <<2>>)]
    /\ \/ /\ i + 1 < FIFO_BUFF_COUNT - 1
          /\ i' = i + 1
          /\ pc' = "rd1"
       \/ /\ i + 1 >= FIFO_BUFF_COUNT - 1
          /\ i' = i
          /\ pc' = "rec_btn"
    /\ heldWrite' = (btn = FALSE)
    /\ UNCHANGED <<led, display, file_count, countFile, file, count,
                   buf1_7, buf2_7, devVars, btn, ticks, run, restarts, sideVars,
                   busVars>>

\* file.write(buf2_7), and the step of for i in range(FIFO_BUFF_COUNT)
Write2 ==
    /\ pc = "wr2"
    /\ lag' = 0
    /\ files' = [files EXCEPT ![file] = Append(@, <<2>>)]
    /\ \/ /\ i + 1 < FIFO_BUFF_COUNT
          /\ i' = i + 1
          /\ pc' = "rd1"
       \/ /\ i + 1 >= FIFO_BUFF_COUNT
          /\ i' = i
          /\ pc' = "rec_btn"
    /\ heldWrite' = (btn = FALSE)
    /\ UNCHANGED <<led, display, file_count, countFile, file, count,
                   buf1_7, buf2_7, devVars, btn, ticks, run, restarts, sideVars,
                   busVars>>

\* ---------------------------------------------------------------- closing
\* StopRelease that lowers the data rate of device 1 before closing.
StopRelease_SlowsDown ==
    /\ pc = "stop_release"
    /\ lag' = 0
    /\ btn = TRUE
    /\ WriteRegs(1, odr(regs[1], 13))
    /\ pc' = "close_file"
    /\ UNCHANGED <<progVars, envVars>>

\* StopRelease that does not wait for the button to be released.
StopRelease_NoWait ==
    /\ pc = "stop_release"
    /\ lag' = 0
    /\ pc' = "close_file"
    /\ UNCHANGED <<progVars, devVars, envVars>>

StopRelease ==
    /\ pc = "stop_release"
    /\ lag' = 0
    /\ btn = TRUE
    /\ pc' = "close_file"
    /\ UNCHANGED <<progVars, devVars, envVars>>

\* CloseFile that leaves the file open.
CloseFile_NoClose ==
    /\ pc = "close_file"
    /\ lag' = 0
    /\ pc' = "end_standby1"
    /\ UNCHANGED <<progVars, devVars, envVars>>

CloseFile ==
    /\ pc = "close_file"
    /\ lag' = 0
    /\ file' = 0
    /\ pc' = "end_standby1"
    /\ UNCHANGED <<led, display, file_count, countFile, files, i, count,
                   buf1_7, buf2_7, devVars, envVars>>

EndStandby1 ==
    /\ pc = "end_standby1"
    /\ lag' = 0
    /\ WriteRegs(1, standby(regs[1]))
    /\ pc' = "end_standby2"
    /\ UNCHANGED <<progVars, envVars>>

EndStandby2 ==
    /\ pc = "end_standby2"
    /\ lag' = 0
    /\ WriteRegs(2, standby(regs[2]))
    /\ pc' = "led_off"
    /\ UNCHANGED <<progVars, envVars>>

LedOff ==
    /\ pc = "led_off"
    /\ lag' = 0
    /\ led' = 1
    /\ pc' = "end_display"
    /\ UNCHANGED <<display, file_count, countFile, files, file, i, count,
                   buf1_7, buf2_7, devVars, envVars>>

\* EndDisplay clearing the display without printing the number.
EndDisplay_Blank ==
    /\ pc = "end_display"
    /\ lag' = 0
    /\ display' = Blank
    /\ pc' = "wait_press"
    /\ UNCHANGED <<led, file_count, countFile, files, file, i, count, buf1_7,
                   buf2_7, devVars, envVars>>

EndDisplay ==
    /\ pc = "end_display"
    /\ lag' = 0
    /\ display' = ShowNumber(file_count)
    /\ pc' = "wait_press"
    /\ UNCHANGED <<led, file_count, countFile, files, file, i, count, buf1_7,
                   buf2_7, devVars, envVars>>

\* ---------------------------------------------------------------- restart
\* The board is reset while the program waits for a press: main.py runs
\* again from the top.  The card and the devices keep their state.
Restart ==
    /\ pc = "wait_press"
    /\ Len(restarts) < MaxRestarts
    /\ restarts' = Append(restarts, int(countFile[Len(countFile)]))
    /\ pc' = "boot"
    /\ file_count' = 0
    /\ led' = 0
    /\ i' = 0
    /\ count' = 0
    /\ buf1_7' = 0
    /\ buf2_7' = 0
    /\ lag' = 0
    /\ UNCHANGED <<display, countFile, files, file, devVars, btn, ticks, run,
                   heldWrite, sideVars, busVars>>

\* ---------------------------------------------------------- specifications
Program ==
    \/ Boot \/ Setup1 \/ Config1 \/ Setup2 \/ Config2 \/ GetFileCount
    \/ InitLed
    \/ WaitPress \/ WaitRelease
    \/ LedOn \/ SaveCount \/ ArmDisplay \/ ArmStandby1 \/ ClearAccelBuf
    \/ ArmStandby2 \/ OpenFile
    \/ IntEnable \/ Measure1 \/ Measure2
    \/ RecBtn \/ WaitInt1 \/ Read1 \/ Read2 \/ Write1 \/ Write2
    \/ StopRelease \/ CloseFile \/ EndStandby1 \/ EndStandby2 \/ LedOff
    \/ EndDisplay

Next == Program \/ Tick \/ Press \/ Release

Spec == Init /\ [][Next]_vars

NextRestart == Next \/ Restart

SpecRestart == Init /\ [][NextRestart]_vars

\* ------------------------------------------------------------------ faults
\* main.py with the storage and bus operations that can raise OSError.
\* Apart from the try/except around os.mount, os.mkdir and the creation of
\* count.txt, nothing in main.py catches an exception: it leaves the program.

\* The positions of main.py at a file operation on the card.
StoragePcs == {"getcount", "save_count", "open_file", "wr1", "wr2",
               "close_file"}

\* The positions of main.py at a register or batch transaction.
BusPcs == {"setup1", "config1", "setup2", "config2", "arm_standby1", "clear",
           "arm_standby2", "int_enable", "measure1", "measure2", "rd1", "rd2",
           "end_standby1", "end_standby2"}

\* Display.text('OFF '); Display.blink_rate(2); Display.show()
ShowOff == [text |-> "OFF ", number |-> -1, blink |-> 2]

\* os.mount raises: 'OFF ' is shown blinking and the program goes on; the
\* failures of os.mkdir and of the creation of count.txt are ignored, and
\* os.chdir('/sd/log') raises.
MountFails ==
    /\ pc = "boot"
    /\ lag' = 0
    /\ display' = ShowOff
    /\ fault' = "storage"
    /\ pc' = "raised"
    /\ UNCHANGED <<led, file_count, countFile, files, file, i, count, buf1_7,
                   buf2_7, devVars, btn, ticks, run, restarts, sideVars, heldWrite, cs,
                   tx, ret, txn, calls, conv, logFile, dataFile, time,
                   deltaTime>>

\* open(), write() or close() on the card raises.
StorageFault ==
    /\ pc \in StoragePcs
    /\ lag' = 0
    /\ fault' = "storage"
    /\ pc' = "raised"
    /\ UNCHANGED <<progVars, devVars, btn, ticks, run, restarts, sideVars, heldWrite,
                   cs, tx, ret, txn, calls, conv, logFile, dataFile, time,
                   deltaTime>>

\* A failed exchange that is swallowed: the program goes on with the buffer
\* it had.
BusFault_Swallowed ==
    /\ pc \in {"rd1", "rd2"}
    /\ lag' = 0
    /\ fault' = "bus"
    /\ pc' = IF pc = "rd1" THEN "rd2" ELSE "wr1"
    /\ UNCHANGED <<progVars, devVars, btn, ticks, run, restarts, sideVars, heldWrite,
                   cs, tx, ret, txn, calls, conv, logFile, dataFile, time,
                   deltaTime>>

\* spi.send_recv or spi.send raises.
BusFault ==
    /\ pc \in BusPcs
    /\ lag' = 0
    /\ fault' = "bus"
    /\ pc' = "raised"
    /\ UNCHANGED <<progVars, devVars, btn, ticks, run, restarts, sideVars, heldWrite,
                   cs, tx, ret, txn, calls, conv, logFile, dataFile, time,
                   deltaTime>>

NextFault == Next \/ MountFails \/ StorageFault \/ BusFault

SpecFault == Init /\ [][NextFault]_vars

\* ----------------------------------------------------------------- phases
\* ------------------------------------------------------ the driver's setters
\* The setters of the driver called on device 1, whose registers all start
\* at one arbitrary byte.  The driver hands the setter's value to mem_write,
\* which stores it in the bytearray self.buf: the device receives its low
\* eight bits.
MaxCalls == 2

NoArg == 0

\* The interrupt masks, data rate codes and sample counts tried.
IntMasks == {Watermark_enable, DATA_READY_enable}

OdrCodes == 0..15

SampleCounts == {-5, 0, 20, 31, 32, 50}

SetterCalls ==
    [f : {"low_power_mode", "normal_power_mode", "standby", "measure",
          "begin_self_test", "end_self_test", "spi_3_wire", "spi_4_wire",
          "interrupt_active_low", "interrupt_active_high", "left_justify",
          "right_justify", "FIFO_Mode_Bypass", "FIFO_Mode_FIFO",
          "FIFO_Mode_Stream", "FIFO_Mode_Trigger", "trigger_int1",
          "trigger_int2"}, arg : {NoArg}]
    \cup [f : {"odr"}, arg : OdrCodes]
    \cup [f : {"int_enable", "int_disable", "int_map_int1", "int_map_int2"},
          arg : IntMasks]
    \cup [f : {"set_samples"}, arg : SampleCounts]

\* The register file the call c leaves from r, before the transport.
Apply(c, r) ==
    CASE c.f = "low_power_mode"        -> low_power_mode(r)
      [] c.f = "normal_power_mode"     -> normal_power_mode(r)
      [] c.f = "odr"                   -> odr(r, c.arg)
      [] c.f = "standby"               -> standby(r)
      [] c.f = "measure"               -> measure(r)
      [] c.f = "int_enable"            -> int_enable(r, c.arg)
      [] c.f = "int_disable"           -> int_disable(r, c.arg)
      [] c.f = "int_map_int1"          -> int_map_int1(r, c.arg)
      [] c.f = "int_map_int2"          -> int_map_int2(r, c.arg)
      [] c.f = "begin_self_test"       -> begin_self_test(r)
      [] c.f = "end_self_test"         -> end_self_test(r)
      [] c.f = "spi_3_wire"            -> spi_3_wire(r)
      [] c.f = "spi_4_wire"            -> spi_4_wire(r)
      [] c.f = "interrupt_active_low"  -> interrupt_active_low(r)
      [] c.f = "interrupt_active_high" -> interrupt_active_high(r)
      [] c.f = "left_justify"          -> left_justify(r)
      [] c.f = "right_justify"         -> right_justify(r)
      [] c.f = "FIFO_Mode_Bypass"      -> FIFO_Mode_Bypass(r)
      [] c.f = "FIFO_Mode_FIFO"        -> FIFO_Mode_FIFO(r)
      [] c.f = "FIFO_Mode_Stream"      -> FIFO_Mode_Stream(r)
      [] c.f = "FIFO_Mode_Trigger"     -> FIFO_Mode_Trigger(r)
      [] c.f = "trigger_int1"          -> trigger_int1(r)
      [] c.f = "trigger_int2"          -> trigger_int2(r)
      [] c.f = "set_samples"           -> set_samples(r, c.arg)

\* The register a setter belongs to.
SetterReg(f) ==
    CASE f \in {"low_power_mode", "normal_power_mode", "odr"} -> BW_RATE
      [] f \in {"standby", "measure"} -> POWER_CTL
      [] f \in {"int_enable", "int_disable"} -> INT_ENABLE
      [] f \in {"int_map_int1", "int_map_int2"} -> INT_MAP
      [] f \in {"begin_self_test", "end_self_test", "spi_3_wire",
                "spi_4_wire", "interrupt_active_low",
                "interrupt_active_high", "left_justify", "right_justify"}
            -> DATA_FORMAT
      [] f \in {"FIFO_Mode_Bypass", "FIFO_Mode_FIFO", "FIFO_Mode_Stream",
                "FIFO_Mode_Trigger", "trigger_int1", "trigger_int2",
                "set_samples"} -> FIFO_CTL

InitSetters ==
    /\ pc = "setters"
    /\ btn = TRUE
    /\ led = 0
    /\ display = Blank
    /\ file_count = 0
    /\ countFile = <<>>
    /\ files = <<>>
    /\ file = 0
    /\ i = 0
    /\ count = 0
    /\ buf1_7 = 0
    /\ buf2_7 = 0
    /\ \E b \in 0..255 :
          regs = [d \in Devices |->
                    IF d = 1 THEN [a \in Registers |-> b] ELSE ResetRegs]
    /\ fifo = [d \in Devices |-> <<>>]
    /\ dataReg  = [d \in Devices |-> 0]
    /\ produced = [d \in Devices |-> 0]
    /\ overrun  = [d \in Devices |-> FALSE]
    /\ ticks = 0
    /\ run = [ticks |-> 0, files |-> 0]
    /\ lag = 0
    /\ restarts = <<>>
    /\ seenHeld = FALSE
    /\ cd = FALSE
    /\ heldWrite = FALSE
    /\ cs = [d \in Devices |-> 1]
    /\ tx = NoTx
    /\ ret = NoRet
    /\ txn = 0
    /\ calls = <<>>
    /\ NoOffline

\* One call of a setter: a read of its register, the new value, a write.
CallOf(c) ==
    LET r == Apply(c, regs[1])
    IN  /\ regs' = [regs EXCEPT ![1] = [a \in Registers |-> r[a] % 256]]
        /\ calls' = Append(calls, [f |-> c.f, arg |-> c.arg,
                                   was |-> regs[1],
                                   data |-> r[SetterReg(c.f)]])
        /\ UNCHANGED <<pc, progVars, fifo, dataReg, produced, overrun, btn,
                       ticks, run, lag, restarts, sideVars, heldWrite, cs, tx, ret,
                       txn, offVars>>

CallSetter ==
    /\ Len(calls) < MaxCalls
    /\ \E c \in SetterCalls : CallOf(c)

SpecSetters == InitSetters /\ [][CallSetter]_vars

\* ------------------------------------------------------------------ the bus
\* main.py seen as the register transactions it issues on the one SPI bus
\* with its two chip-selects: the constructor and setup calls of device 1,
\* those of device 2, then calls on either device.  A call of the driver is
\* a sequence of transactions; a transaction drives the chip-select low,
\* exchanges, and drives it high.  spi.send_recv and spi.send raise OSError
\* when the exchange fails; nothing in the driver or in main.py catches it.
MaxTx == 3      \* transactions issued after setup

MaxSample == 2  \* samples device 1 produces after setup

SCALE_FACTOR == 488   \* 0.0488 g/LSB, in 1/10000 g

Axes == 0..2    \* x, y, z

DataAddrs == {DATAX0, DATAX1, DATAY0, DATAY1, DATAZ0, DATAZ1}

\* twos_comp(val, bits)
twos_comp(val, bits) ==
    IF BitAnd(val, 2 ^ (bits - 1)) # 0 THEN val - 2 ^ bits ELSE val

\* The 16-bit word the data registers of an axis hold for sample k.  Both
\* bytes differ from one sample to the next, and every other word is
\* negative.
SampleWord(k, ax) ==
    IF k % 2 = 0 THEN 257 * (k + ax) ELSE 65535 - 257 * (k + ax)

\* The byte at a data register address while the device holds sample k.
DataByte(k, addr) ==
    LET w == SampleWord(k, (addr - DATAX0) \div 2)
    IN  IF (addr - DATAX0) % 2 = 0 THEN w % 256 ELSE w \div 256

\* The registers the setup calls of main.py read and write, in order.
Setup1Regs == <<POWER_CTL, BW_RATE, BW_RATE, DATA_FORMAT, DATA_FORMAT,
                INT_ENABLE, FIFO_CTL, FIFO_CTL, DATA_FORMAT, FIFO_CTL>>

Setup2Regs == <<POWER_CTL, BW_RATE, BW_RATE, DATA_FORMAT, DATA_FORMAT>>

\* A setter: get_<REG>() then set_<REG>(data).
SetterPlan(addr) == <<[kind |-> "mem_read", addr |-> addr],
                      [kind |-> "mem_write", addr |-> addr]>>

\* get_x/y/z_acceleration with the two single-byte getters in its place.
AccPlan_TwoReads(ax) == <<[kind |-> "mem_read", addr |-> DATAX0 + 2 * ax],
                          [kind |-> "mem_read", addr |-> DATAX1 + 2 * ax]>>

\* get_x/y/z_acceleration: self.mem_read_2bytes(self.DATAX0)
AccPlan(ax) == <<[kind |-> "mem_read_2bytes", addr |-> DATAX0 + 2 * ax]>>

\* get_DATAX0() then get_DATAX1(), combined by the caller.
NaivePlan(ax) == <<[kind |-> "mem_read", addr |-> DATAX0 + 2 * ax],
                   [kind |-> "mem_read", addr |-> DATAX1 + 2 * ax]>>

\* The calls made after setup, each with its transactions.
LoopCalls ==
    [dev : {1}, call : {"get_acceleration"}, axis : Axes]
    \cup [dev : {1}, call : {"get_DATA0_DATA1"}, axis : Axes]
    \cup [dev : Devices, call : {"set_POWER_CTL", "batch_read"}, axis : {0}]

PlanOf(c) ==
    CASE c.call = "get_acceleration" -> AccPlan(c.axis)
      [] c.call = "get_DATA0_DATA1"  -> NaivePlan(c.axis)
      [] c.call = "set_POWER_CTL"    ->
            <<[kind |-> "mem_write", addr |-> POWER_CTL]>>
      [] c.call = "batch_read"       ->
            <<[kind |-> "burst", addr |-> DATAX0]>>

READ_MASK         == \b10000000
READ_2_BYTES_MASK == \b01000000

\* The drain loop's command with the multiple-byte bit left out.
CMD_RD_SingleByte == <<\b10110010, 0, 0, 0, 0, 0, 0>>

\* CMD_RD = bytearray((0b11110010, 0, 0, 0, 0, 0, 0))
CMD_RD == <<\b11110010, 0, 0, 0, 0, 0, 0>>

\* The first byte a transaction sends: buf[0], buf_2[0] or CMD_RD[0].
Command(kind, mem_addr) ==
    CASE kind = "mem_read"        -> BitOr(mem_addr, READ_MASK)
      [] kind = "mem_read_2bytes" ->
            BitOr(BitOr(mem_addr, READ_MASK), READ_2_BYTES_MASK)
      [] kind = "mem_write"       -> mem_addr
      [] kind = "burst"           -> CMD_RD[1]

\* The bytes a transaction exchanges: buf, buf_2 or CMD_RD.
Length(kind) ==
    CASE kind = "mem_read"        -> 2
      [] kind = "mem_read_2bytes" -> 3
      [] kind = "mem_write"       -> 2
      [] kind = "burst"           -> Len(CMD_RD)

\* The first transaction of a call drives the chip-select low.
StartCall(d, name, ax, plan) ==
    /\ tx' = [dev |-> d, call |-> name, axis |-> ax, kind |-> plan[1].kind,
              addr |-> plan[1].addr,
              cmd |-> Command(plan[1].kind, plan[1].addr),
              len |-> Length(plan[1].kind), step |-> "low",
              rest |-> Tail(plan), got |-> <<>>]
    /\ cs' = [cs EXCEPT ![d] = 0]

busFrame == <<btn, led, display, file_count, countFile, files, file, i, count,
              buf1_7, buf2_7, regs, fifo, produced, overrun, ticks, run, lag,
              restarts, sideVars, heldWrite, calls, offVars>>

InitBus ==
    /\ pc = "ctor1"
    /\ btn = TRUE
    /\ led = 0
    /\ display = Blank
    /\ file_count = 0
    /\ countFile = <<>>
    /\ files = <<>>
    /\ file = 0
    /\ i = 0
    /\ count = 0
    /\ buf1_7 = 0
    /\ buf2_7 = 0
    /\ regs = [d \in Devices |-> ResetRegs]
    /\ fifo = [d \in Devices |-> <<>>]
    /\ dataReg  = [d \in Devices |-> 0]
    /\ produced = [d \in Devices |-> 0]
    /\ overrun  = [d \in Devices |-> FALSE]
    /\ ticks = 0
    /\ run = [ticks |-> 0, files |-> 0]
    /\ lag = 0
    /\ restarts = <<>>
    /\ seenHeld = FALSE
    /\ cd = FALSE
    /\ heldWrite = FALSE
    /\ cs \in [Devices -> {0, 1}]
    /\ tx = NoTx
    /\ ret = NoRet
    /\ txn = 0
    /\ calls = <<>>
    /\ NoOffline

\* ADXL375(spi_1, SPI1_CSn): self.CS_pin.high()
BusCtor ==
    /\ pc \in {"ctor1", "ctor2"}
    /\ LET d == IF pc = "ctor1" THEN 1 ELSE 2
       IN  /\ cs' = [cs EXCEPT ![d] = 1]
           /\ pc' = IF d = 1 THEN "setup1" ELSE "setup2"
    /\ txn' = 0
    /\ UNCHANGED <<tx, ret, dataReg, busFrame>>

\* The next setter call of setup, or the end of the setup of this device.
BusSetup ==
    /\ pc \in {"setup1", "setup2"}
    /\ tx = NoTx
    /\ LET d == IF pc = "setup1" THEN 1 ELSE 2
           rs == IF d = 1 THEN Setup1Regs ELSE Setup2Regs
       IN  \/ /\ txn < 2 * Len(rs)
              /\ StartCall(d, "setter", 0, SetterPlan(rs[txn \div 2 + 1]))
              /\ UNCHANGED <<pc, txn>>
           \/ /\ txn = 2 * Len(rs)
              /\ pc' = IF d = 1 THEN "ctor2" ELSE "loop"
              /\ txn' = 0
              /\ UNCHANGED <<tx, cs>>
    /\ UNCHANGED <<ret, dataReg, busFrame>>

\* A call on either device after setup.
BusCall ==
    /\ pc = "loop"
    /\ tx = NoTx
    /\ \E c \in LoopCalls :
          /\ txn + Len(PlanOf(c)) <= MaxTx
          /\ StartCall(c.dev, c.call, c.axis, PlanOf(c))
    /\ UNCHANGED <<pc, txn, ret, dataReg, busFrame>>

\* The next transaction of a call drives the chip-select low.
BusBegin ==
    /\ tx.step = "idle"
    /\ tx' = [tx EXCEPT !.step = "low"]
    /\ cs' = [cs EXCEPT ![tx.dev] = 0]
    /\ UNCHANGED <<pc, txn, ret, dataReg, busFrame>>

\* spi.send_recv / spi.send returns.  The device takes bit 7 of the first
\* byte as the read bit, bit 6 as the multiple-byte bit and bits 5..0 as the
\* register address; on a read it returns one register per further byte,
\* the next register each time when the multiple-byte bit is set.
BusExchange ==
    /\ tx.step = "low"
    /\ LET k == dataReg[tx.dev]
           base == BitAnd(tx.cmd, \b00111111)
           multi == BitAnd(tx.cmd, READ_2_BYTES_MASK) # 0
           byteAt(a) == [byte |-> IF a \in DataAddrs THEN DataByte(k, a)
                                  ELSE regs[tx.dev][a],
                         of |-> k]
       IN  tx' = [tx EXCEPT
                    !.step = "done",
                    !.got = IF BitAnd(tx.cmd, READ_MASK) # 0
                            THEN @ \o [j \in 1..(tx.len - 1) |->
                                         byteAt(IF multi THEN base + j - 1
                                                ELSE base)]
                            ELSE @]
    /\ UNCHANGED <<pc, cs, txn, ret, dataReg, busFrame>>

\* spi.send_recv / spi.send raises: the exception leaves the driver and
\* main.py, and the program ends.
BusExchangeFails ==
    /\ tx.step = "low"
    /\ tx' = NoTx
    /\ pc' = "raised"
    /\ UNCHANGED <<cs, txn, ret, dataReg, busFrame>>

\* self.CS_pin.high(); then the next transaction of the call, or its return.
BusEnd ==
    /\ tx.step = "done"
    /\ cs' = [cs EXCEPT ![tx.dev] = 1]
    /\ txn' = txn + 1
    /\ IF tx.rest # <<>>
       THEN /\ tx' = [tx EXCEPT !.kind = tx.rest[1].kind,
                                !.addr = tx.rest[1].addr,
                                !.cmd = Command(tx.rest[1].kind,
                                                tx.rest[1].addr),
                                !.len = Length(tx.rest[1].kind),
                                !.step = "idle",
                                !.rest = Tail(tx.rest)]
            /\ ret' = ret
       ELSE /\ tx' = NoTx
            /\ LET r == [axis |-> tx.axis,
                         value |-> twos_comp(tx.got[2].byte * 256
                                               + tx.got[1].byte, 16)
                                   * SCALE_FACTOR,
                         lsbOf |-> tx.got[1].of,
                         msbOf |-> tx.got[2].of]
               IN  ret' = CASE tx.call = "get_acceleration" ->
                                   [ret EXCEPT !.acc = r]
                            [] tx.call = "get_DATA0_DATA1" ->
                                   [ret EXCEPT !.naive = r]
                            [] OTHER -> ret
    /\ UNCHANGED <<pc, dataReg, busFrame>>

\* Device 1 replaces the sample in its data registers, between transactions.
NewSample ==
    /\ pc = "loop"
    /\ tx.step \notin {"low", "done"}
    /\ dataReg[1] < MaxSample
    /\ dataReg' = [dataReg EXCEPT ![1] = @ + 1]
    /\ UNCHANGED <<pc, cs, tx, txn, ret, busFrame>>

NextBus ==
    \/ BusCtor \/ BusSetup \/ BusCall \/ BusBegin \/ BusExchange
    \/ BusExchangeFails \/ BusEnd \/ NewSample

SpecBus == InitBus /\ [][NextBus]_vars

\* ------------------------------------------------------------ conversions
\* The main program at rest: what the offline computations leave alone.
AtRest ==
    /\ btn = TRUE
    /\ led = 0
    /\ display = Blank
    /\ file_count = 0
    /\ countFile = <<>>
    /\ files = <<>>
    /\ file = 0
    /\ i = 0
    /\ count = 0
    /\ buf1_7 = 0
    /\ buf2_7 = 0
    /\ fifo = [d \in Devices |-> <<>>]
    /\ dataReg  = [d \in Devices |-> 0]
    /\ produced = [d \in Devices |-> 0]
    /\ overrun  = [d \in Devices |-> FALSE]
    /\ ticks = 0
    /\ run = [ticks |-> 0, files |-> 0]
    /\ lag = 0
    /\ restarts = <<>>
    /\ seenHeld = FALSE
    /\ cd = FALSE
    /\ heldWrite = FALSE
    /\ cs = [d \in Devices |-> 1]
    /\ tx = NoTx
    /\ ret = NoRet
    /\ txn = 0
    /\ calls = <<>>

restFrame == <<btn, led, display, file_count, countFile, files, file, i,
               count, buf1_7, buf2_7, fifo, dataReg, produced, overrun,
               ticks, run, lag, restarts, sideVars, heldWrite, cs, tx, ret, txn,
               calls>>

\* helperFunctions.twos_comp with the sign taken from bit 14.
helperFunctions_twos_comp_Bit14(val, bits) ==
    IF BitAnd(val, 2 ^ (bits - 2)) # 0 THEN val - 2 ^ bits ELSE val

\* helperFunctions.twos_comp(val, bits)
helperFunctions_twos_comp(val, bits) ==
    IF BitAnd(val, 2 ^ (bits - 1)) # 0 THEN val - 2 ^ bits ELSE val

\* get_x_acceleration with the two bytes taken high byte first.
get_x_acceleration_BigEndian(LSB, MSB) ==
    twos_comp(LSB * 256 + MSB, 16) * SCALE_FACTOR

\* get_x/y/z_acceleration once mem_read_2bytes has filled buf_2:
\* LSB = buf_2[1], MSB = buf_2[2], data = (MSB << 8) + LSB
get_x_acceleration(LSB, MSB) ==
    twos_comp(MSB * 256 + LSB, 16) * SCALE_FACTOR

\* decode_data: X1_ACCEL .. Z2_ACCEL, the axis whose low byte is line[lo]
\* (line[lo] of the source is line[lo + 1] here).
DecodeAxis(line, lo) ==
    LET LSB  == line[lo + 1]
        MSB  == line[lo + 2]
        DATA == MSB * 256 + LSB
    IN  helperFunctions_twos_comp(DATA, 16) * SCALE_FACTOR

\* A 14-byte record whose device-1 X word is v.
RecordOfWord(v) ==
    [k \in 1..14 |-> IF k = 2 THEN v % 256 ELSE IF k = 3 THEN v \div 256
                                                         ELSE 0]

\* Every 16-bit word is converted by the driver and by helperFunctions.
InitWord ==
    /\ pc = "word"
    /\ regs = [d \in Devices |-> ResetRegs]
    /\ AtRest
    /\ \E v \in 0..65535 : conv = [NoConv EXCEPT !.v = v]
    /\ logFile = NoFile
    /\ dataFile = NoFile
    /\ time = 0
    /\ deltaTime = 0
    /\ fault = "none"

Convert ==
    /\ pc = "word"
    /\ conv' = [odr     |-> 0,
                v       |-> conv.v,
                driver  |-> twos_comp(conv.v, 16),
                helper  |-> helperFunctions_twos_comp(conv.v, 16),
                live    |-> get_x_acceleration(conv.v % 256, conv.v \div 256),
                offline |-> DecodeAxis(RecordOfWord(conv.v), 1)]
    /\ pc' = "converted"
    /\ UNCHANGED <<regs, restFrame, logFile, dataFile, time, deltaTime,
                   fault>>

SpecWord == InitWord /\ [][Convert]_vars

\* ------------------------------------------------------------- decode_data
\* decode_data(file_count, adxl375) run on a card that holds a capture of
\* whole 14-byte records under the name it opens, or no file of that name.
\* Rates are in hundredths
\* of a hertz and times in microseconds, the 6 decimal places that
\* round(..., 6) keeps.
MaxRecords == 3   \* records in the capture

\* The first line decode_data writes.
Header == "TIME (sec), X1_ACCEL (g), Y1_ACCEL (g), Z1_ACCEL (g), X2_ACCEL (g), Y2_ACCEL (g), Z2_ACCEL (g)"

\* ODR_VALUES of get_ODR, in its order: rate, code.
ODR_VALUES == << <<320000, \b1111>>, <<160000, \b1110>>, <<80000, \b1101>>,
                 <<40000, \b1100>>, <<20000, \b1011>>, <<10000, \b1010>>,
                 <<5000, \b1001>>, <<2500, \b1000>>, <<1250, \b0111>>,
                 <<625, \b0110>>, <<313, \b0101>>, <<156, \b0100>>,
                 <<78, \b0011>>, <<39, \b0010>>, <<20, \b0001>>,
                 <<10, \b0000>> >>

RECURSIVE get_ODR_scan(_, _)
\* for value in ODR_VALUES: if ODR == value[1]: return value[0]
\* return False (0)
get_ODR_scan(ODR, values) ==
    IF values = <<>> THEN 0
    ELSE IF ODR = Head(values)[2] THEN Head(values)[1]
    ELSE get_ODR_scan(ODR, Tail(values))

\* get_ODR looking up the whole BW_RATE byte.
get_ODR_Unmasked(r) == get_ODR_scan(mem_read(r, BW_RATE), ODR_VALUES)

\* get_ODR(adxl375)
get_ODR(r) ==
    get_ODR_scan(BitAnd(mem_read(r, BW_RATE), \b00001111), ODR_VALUES)

\* round(num / den, 0): the nearest integer; which one a tie gives depends
\* on the binary value of the float.
Rounded(num, den) ==
    IF 2 * (num % den) = den THEN {num \div den, num \div den + 1}
    ELSE IF 2 * (num % den) < den THEN {num \div den}
    ELSE {num \div den + 1}

\* The words of the three axes of both devices in the records of a capture.
SampleWords ==
    << << <<\h0001, \hFFFF, \h8000>>, <<\h7FFF, \h0100, \h00FF>> >>,
       << <<\h1234, \hFFFE, \h0000>>, <<\h8001, \hABCD, \h0002>> >> >>

\* What the bus returns while the command byte is sent: bytes 0 and 7.
EchoBytes == {\h00, \hFF}

\* The 14-byte record with echo byte h and the words of sample s.
RecordOf(h, s) ==
    LET half(w) == <<h, w[1] % 256, w[1] \div 256, w[2] % 256, w[2] \div 256,
                     w[3] % 256, w[3] \div 256>>
    IN  half(SampleWords[s][1]) \o half(SampleWords[s][2])

Records == {RecordOf(h, s) : h \in EchoBytes, s \in 1..Len(SampleWords)}

Captures == UNION {[1..k -> Records] : k \in 0..MaxRecords}

\* decode_data with the axes read one byte early.
DecodeLine_Shifted(line) ==
    <<DecodeAxis(line, 0), DecodeAxis(line, 2), DecodeAxis(line, 4),
      DecodeAxis(line, 7), DecodeAxis(line, 9), DecodeAxis(line, 11)>>

\* X1_ACCEL, Y1_ACCEL, Z1_ACCEL, X2_ACCEL, Y2_ACCEL, Z2_ACCEL of a line
DecodeLine(line) ==
    <<DecodeAxis(line, 1), DecodeAxis(line, 3), DecodeAxis(line, 5),
      DecodeAxis(line, 8), DecodeAxis(line, 10), DecodeAxis(line, 12)>>

InitDecode ==
    /\ pc = "decode"
    /\ \E b \in 0..255 :
          regs = [d \in Devices |-> [ResetRegs EXCEPT ![BW_RATE] = b]]
    /\ AtRest
    /\ conv = NoConv
    /\ \/ \E c \in Captures :
             logFile = [name |-> <<"log.bin">>, data |-> c, pos |-> 0,
                        open |-> FALSE]
       \/ logFile = NoFile
    /\ dataFile = NoFile
    /\ time = 0
    /\ deltaTime = 0
    /\ fault = "none"

\* dataFile = open('data' + str(file_count) + '.txt', 'w') and the header
OpenData ==
    /\ pc = "decode"
    /\ dataFile' = [name |-> <<"data", str(file_count), ".txt">>,
                    data |-> <<Header>>, pos |-> 1, open |-> TRUE]
    /\ pc' = "delta"
    /\ UNCHANGED <<regs, restFrame, conv, logFile, time, deltaTime, fault>>

\* time = 0; deltaTime = round((1/get_ODR(adxl375)), 6)
DeltaTime ==
    /\ pc = "delta"
    /\ LET ODR == get_ODR(regs[1])
       IN  /\ conv' = [conv EXCEPT !.v = mem_read(regs[1], BW_RATE),
                                   !.odr = ODR]
           /\ time' = 0
           /\ IF ODR = 0
              THEN /\ fault' = "ZeroDivisionError"
                   /\ pc' = "raised"
                   /\ UNCHANGED deltaTime
              ELSE /\ deltaTime' \in Rounded(100000000, ODR)
                   /\ pc' = "open_log"
                   /\ UNCHANGED fault
    /\ UNCHANGED <<regs, restFrame, logFile, dataFile>>

\* logFile = open('log.bin', 'rb') raises, there being no such file: the
\* except clause prints "ERROR: LOG FILE DOES NOT EXIST", and the loop goes
\* on to logFile.read(14) with logFile never assigned, which raises
\* NameError.
OpenLogFails ==
    /\ pc = "open_log"
    /\ logFile = NoFile
    /\ fault' = "NameError"
    /\ pc' = "raised"
    /\ UNCHANGED <<regs, restFrame, conv, logFile, dataFile, time, deltaTime>>

\* logFile = open('log.bin', 'rb'), the file being there
OpenLog ==
    /\ pc = "open_log"
    /\ logFile # NoFile
    /\ logFile' = [logFile EXCEPT !.open = TRUE, !.pos = 0]
    /\ pc' = "read"
    /\ UNCHANGED <<regs, restFrame, conv, dataFile, time, deltaTime, fault>>

\* The loop leaving one record early.
EndOfFile_Early ==
    /\ pc = "read"
    /\ logFile.pos + 1 >= Len(logFile.data)
    /\ pc' = "close_log"
    /\ UNCHANGED <<regs, restFrame, conv, logFile, dataFile, time, deltaTime,
                   fault>>

\* line = logFile.read(14); if not line: break
EndOfFile ==
    /\ pc = "read"
    /\ logFile.pos = Len(logFile.data)
    /\ pc' = "close_log"
    /\ UNCHANGED <<regs, restFrame, conv, logFile, dataFile, time, deltaTime,
                   fault>>

\* line = logFile.read(14); the six values; dataFile.write(row);
\* time = time + deltaTime
DecodeRow ==
    /\ pc = "read"
    /\ logFile.pos < Len(logFile.data)
    /\ LET line == logFile.data[logFile.pos + 1]
       IN  dataFile' = [dataFile EXCEPT
                          !.data = Append(@, [time |-> time,
                                              acc |-> DecodeLine(line)]),
                          !.pos = @ + 1]
    /\ logFile' = [logFile EXCEPT !.pos = @ + 1]
    /\ time' = time + deltaTime
    /\ UNCHANGED <<pc, regs, restFrame, conv, deltaTime, fault>>

\* logFile.close()
CloseLog ==
    /\ pc = "close_log"
    /\ logFile' = [logFile EXCEPT !.open = FALSE]
    /\ pc' = "close_data"
    /\ UNCHANGED <<regs, restFrame, conv, dataFile, time, deltaTime, fault>>

\* dataFile.close()
CloseData ==
    /\ pc = "close_data"
    /\ dataFile' = [dataFile EXCEPT !.open = FALSE]
    /\ pc' = "decoded"
    /\ UNCHANGED <<regs, restFrame, conv, logFile, time, deltaTime, fault>>

NextDecode ==
    \/ OpenData \/ DeltaTime \/ OpenLog \/ OpenLogFails \/ EndOfFile
    \/ DecodeRow
    \/ CloseLog \/ CloseData

SpecDecode == InitDecode /\ [][NextDecode]_vars

\* -------------------------------------------------------------- power loss
\* Power is lost at any point after the card is mounted, and comes back:
\* main.py runs again from the top, the devices are reset, and the card
\* holds what was written to it.  count.txt is opened, appended to and
\* closed in one step of the program, so its new line is on the card or is
\* not.
PowerLoss ==
    /\ pc # "boot"
    /\ Len(restarts) < MaxRestarts
    /\ restarts' = Append(restarts, int(countFile[Len(countFile)]))
    /\ pc' = "boot"
    /\ led' = 0
    /\ display' = Blank
    /\ file_count' = 0
    /\ file' = 0
    /\ i' = 0
    /\ count' = 0
    /\ buf1_7' = 0
    /\ buf2_7' = 0
    /\ regs' = [d \in Devices |-> ResetRegs]
    /\ fifo' = [d \in Devices |-> <<>>]
    /\ dataReg'  = [d \in Devices |-> 0]
    /\ produced' = [d \in Devices |-> 0]
    /\ overrun'  = [d \in Devices |-> FALSE]
    /\ cs' = [d \in Devices |-> 0]
    /\ lag' = 0
    /\ heldWrite' = FALSE
    /\ seenHeld' = FALSE
    /\ UNCHANGED <<countFile, files, btn, ticks, run, cd, tx, ret, txn,
                   calls, offVars>>

NextPower == Next \/ PowerLoss

SpecPower == Init /\ [][NextPower]_vars

\* --------------------------------------------------------- card detection
\* The program from its first statement that depends on the card: the
\* card-detect pin reads high while no card is in, and a card may be put
\* in at any moment.
ShowSD == [text |-> "  SD", number |-> -1, blink |-> 2]

InitCard ==
    /\ pc = "card_detect"
    /\ cd \in BOOLEAN
    /\ btn = TRUE
    /\ led = 0
    /\ display = Blank
    /\ file_count = 0
    /\ countFile = <<>>
    /\ files = <<>>
    /\ file = 0
    /\ i = 0
    /\ count = 0
    /\ buf1_7 = 0
    /\ buf2_7 = 0
    /\ \E warm \in BOOLEAN :
          /\ regs = [d \in Devices |-> IF warm THEN WarmRegs ELSE ResetRegs]
          /\ fifo = [d \in Devices |->
                        IF warm THEN [k \in 1..WarmEntries |-> 0] ELSE <<>>]
    /\ dataReg  = [d \in Devices |-> 0]
    /\ produced = [d \in Devices |-> 0]
    /\ overrun  = [d \in Devices |-> FALSE]
    /\ ticks = 0
    /\ run \in Runs
    /\ lag = 0
    /\ restarts = <<>>
    /\ heldWrite = FALSE
    /\ seenHeld = FALSE
    /\ cs \in [Devices -> {0, 1}]
    /\ tx = NoTx
    /\ ret = NoRet
    /\ txn = 0
    /\ calls = <<>>
    /\ NoOffline

\* CardWait that goes on whether or not a card is in.
CardWait_NoWait ==
    /\ pc = "card_wait"
    /\ lag' = 0
    /\ display' = Blank
    /\ pc' = "boot"
    /\ UNCHANGED <<led, file_count, countFile, files, file, i, count, buf1_7,
                   buf2_7, devVars, envVars>>

\* if CD.value(): Display.text('  SD'); Display.blink_rate(2); Display.show()
CardDetect ==
    /\ pc = "card_detect"
    /\ lag' = 0
    /\ display' = IF cd THEN ShowSD ELSE display
    /\ pc' = "card_wait"
    /\ UNCHANGED <<led, file_count, countFile, files, file, i, count, buf1_7,
                   buf2_7, devVars, envVars>>

\* while CD.value(): utime.sleep_ms(100), then utime.sleep(3) and the
\* display is cleared
CardWait ==
    /\ pc = "card_wait"
    /\ lag' = 0
    /\ ~ cd
    /\ display' = Blank
    /\ pc' = "boot"
    /\ UNCHANGED <<led, file_count, countFile, files, file, i, count, buf1_7,
                   buf2_7, devVars, envVars>>

\* The user puts a card in.
InsertCard ==
    /\ cd
    /\ cd' = FALSE
    /\ UNCHANGED <<pc, progVars, devVars, btn, ticks, run, lag, restarts,
                   heldWrite, seenHeld, busVars>>

NextCard == CardDetect \/ CardWait \/ InsertCard \/ Next

SpecCard == InitCard /\ [][NextCard]_vars

\* -------------------------------------------------------- clear_accel_buf
\* clear_accel_buf(ADXL375_1) on its own: the device is in standby in FIFO
\* or stream mode with n samples queued, numbered 1..n, oldest first.  The
\* call is logged with the number queued when it is made.
InitClear ==
    /\ pc = "clear"
    /\ btn = TRUE
    /\ led = 0
    /\ display = Blank
    /\ file_count = 0
    /\ countFile = <<>>
    /\ files = <<>>
    /\ file = 0
    /\ i = 0
    /\ count = 0
    /\ buf1_7 = 0
    /\ buf2_7 = 0
    /\ \E mode \in {FIFO_MODE_FIFO, FIFO_MODE_Stream}, b \in {\h0A, \h0F} :
          regs = [d \in Devices |->
                    IF d = 1
                    THEN [ResetRegs EXCEPT ![FIFO_CTL] = mode + FIFO_BUFF_COUNT,
                                           ![BW_RATE] = b]
                    ELSE ResetRegs]
    /\ \E n \in 0..FIFO_DEPTH :
          /\ fifo = [d \in Devices |->
                       IF d = 1 THEN [k \in 1..n |-> k] ELSE <<>>]
          /\ calls = <<[f |-> "clear_accel_buf", arg |-> NoArg,
                        queued |-> n]>>
    /\ dataReg  = [d \in Devices |-> 0]
    /\ produced = [d \in Devices |-> 0]
    /\ overrun  = [d \in Devices |-> FALSE]
    /\ ticks = 0
    /\ run = [ticks |-> 0, files |-> 0]
    /\ lag = 0
    /\ restarts = <<>>
    /\ seenHeld = FALSE
    /\ cd = FALSE
    /\ heldWrite = FALSE
    /\ cs = [d \in Devices |-> 1]
    /\ tx = NoTx
    /\ ret = NoRet
    /\ txn = 0
    /\ NoOffline

\* The loop of clear_accel_buf is the only thing running, so it gets to run.
SpecClear == InitClear /\ [][ClearAccelBuf]_vars /\ WF_vars(ClearAccelBuf)

\* ------------------------------------------------- the register setters
\* set_<REGISTER>(data) followed by get_<REGISTER>(), and test_write(), on
\* device 1.  A call is logged with the write transactions it made.

\* The register map of the class, attribute name to address.
RegisterMap ==
    [DEVID |-> \h00, THRESH_SHOCK |-> \h1D, OFSX |-> \h1E, OFSY |-> \h1F,
     OFSZ |-> \h20, DUR |-> \h21, Latent |-> \h22, Window |-> \h23,
     THRESH_ACT |-> \h24, THRESH_INACT |-> \h25, TIME_INACT |-> \h26,
     ACT_INACT_CTL |-> \h27, SHOCK_AXES |-> \h2A,
     ACT_SHOCK_STATUS |-> \h2B, BW_RATE |-> \h2C, POWER_CTL |-> \h2D,
     INT_ENABLE |-> \h2E, INT_MAP |-> \h2F, INT_SOURCE |-> \h30,
     DATA_FORMAT |-> \h31, DATAX0 |-> \h32, DATAX1 |-> \h33,
     DATAY0 |-> \h34, DATAY1 |-> \h35, DATAZ0 |-> \h36, DATAZ1 |-> \h37,
     FIFO_CTL |-> \h38, FIFO_STATUS |-> \h39]

\* The attribute of self that set_<REGISTER> hands to mem_write.
SetterAttr ==
    [THRESH_SHOCK |-> "THRESH_SHOCK", OFSX |-> "OFSXF", OFSY |-> "OFSXY",
     OFSZ |-> "OFSXZ", DUR |-> "DUR", Latent |-> "Latent",
     Window |-> "Window", THRESH_ACT |-> "THRESH_ACT",
     THRESH_INACT |-> "THRESH_INACT", TIME_INACT |-> "TIME_INACT",
     ACT_INACT_CTL |-> "ACT_INACT_CTL", SHOCK_AXES |-> "SHOCK_AXES",
     BW_RATE |-> "BW_RATE", POWER_CTL |-> "POWER_CTL",
     INT_ENABLE |-> "INT_ENABLE", INT_MAP |-> "INT_MAP",
     DATA_FORMAT |-> "DATA_FORMAT", FIFO_CTL |-> "FIFO_CTL"]

\* The bytes written in the runs.
RegData == {\h00, \h01, \h7F, \hFF}

InitRegs ==
    /\ pc = "regs"
    /\ \E b \in {\h00, \hA5} :
          regs = [d \in Devices |->
                    IF d = 1 THEN [a \in 0..RegisterMap.FIFO_STATUS |-> b]
                    ELSE ResetRegs]
    /\ AtRest
    /\ NoOffline

\* set_<name>(data): self.mem_write(self.<attribute>, data), the attribute
\* looked up first; a name the class lacks raises AttributeError.
set_REGISTER(name, data) ==
    IF SetterAttr[name] \in DOMAIN RegisterMap
    THEN LET mem_addr == RegisterMap[SetterAttr[name]]
         IN  /\ regs' = [regs EXCEPT ![1][mem_addr] = data]
             /\ calls' = Append(calls,
                     [f |-> name, arg |-> data,
                      wrote |-> <<[addr |-> mem_addr, data |-> data]>>])
             /\ pc' = "set"
             /\ UNCHANGED fault
    ELSE /\ calls' = Append(calls, [f |-> name, arg |-> data,
                                    wrote |-> <<>>])
         /\ fault' = "AttributeError"
         /\ pc' = "raised"
         /\ UNCHANGED regs

SetRegister ==
    /\ pc = "regs"
    /\ \E name \in DOMAIN SetterAttr, data \in RegData :
          set_REGISTER(name, data)
    /\ UNCHANGED <<progVars, fifo, dataReg, produced, overrun, btn, ticks,
                   run, lag, restarts, sideVars, heldWrite, cs, tx, ret, txn, conv,
                   logFile, dataFile, time, deltaTime>>

\* get_<name>() right after set_<name>(data): mem_read of the register,
\* whose byte is returned.
GetRegister ==
    /\ pc = "set"
    /\ ret' = [byte |-> regs[1][RegisterMap[calls[Len(calls)].f]]]
    /\ pc' = "got"
    /\ UNCHANGED <<progVars, devVars, btn, ticks, run, lag, restarts, sideVars,
                   heldWrite, cs, tx, txn, calls, offVars>>

\* test_write(): set_OFSX(0) three times, the first of which ends the
\* function when it raises.
test_write ==
    /\ pc = "regs"
    /\ IF SetterAttr["OFSX"] \in DOMAIN RegisterMap
       THEN LET w == [f |-> "OFSX", arg |-> 0,
                      wrote |-> <<[addr |-> RegisterMap[SetterAttr["OFSX"]],
                                   data |-> 0]>>]
            IN  /\ regs' = [regs EXCEPT
                              ![1][RegisterMap[SetterAttr["OFSX"]]] = 0]
                /\ calls' = calls \o <<w, w, w>>
                /\ pc' = "written"
                /\ UNCHANGED fault
       ELSE /\ calls' = Append(calls, [f |-> "OFSX", arg |-> 0,
                                       wrote |-> <<>>])
            /\ fault' = "AttributeError"
            /\ pc' = "raised"
            /\ UNCHANGED regs
    /\ UNCHANGED <<progVars, fifo, dataReg, produced, overrun, btn, ticks,
                   run, lag, restarts, sideVars, heldWrite, cs, tx, ret, txn, conv,
                   logFile, dataFile, time, deltaTime>>

NextRegs == SetRegister \/ GetRegister \/ test_write

SpecRegs == InitRegs /\ [][NextRegs]_vars

\* ------------------------------------------------------------------ phases
BatchPcs == {"rd1", "rd2", "wr1", "wr2"}

\* The states of the acquisition state machine, by position in main.py:
\* Draining is the loop of lines 422-429 (button check, watermark wait,
\* batch), Closing starts at the wait for the release in line 430.
Phase(p) ==
    CASE p \in {"boot", "setup1", "config1", "setup2", "config2",
                "getcount", "initled"} -> "Boot"
      [] p \in {"wait_press", "wait_release"} -> "Idle"
      [] p \in {"led_on", "save_count", "arm_display", "arm_standby1",
                "clear", "arm_standby2", "open_file"} -> "Arming"
      [] p \in {"int_enable", "measure1", "measure2"} -> "Recording"
      [] p \in {"rec_btn", "rec_wait"} \cup BatchPcs -> "Draining"
      [] p \in {"stop_release", "close_file", "end_standby1", "end_standby2",
                "led_off", "end_display"} -> "Closing"

\* Frames per batch: two 7-byte frames per 14-byte record.
BatchFrames == 2 * FIFO_BUFF_COUNT

\* ------------------------------------------------------------------ claims

\* C1: a batch is entered only from the watermark wait with INT1 active; it
\* is FIFO_BUFF_COUNT iterations of read device 1, read device 2, append
\* device 1's frame, append device 2's frame; so every capture file is a
\* sequence of whole records (device 1 frame, device 2 frame), and outside a
\* batch the number of records is a multiple of FIFO_BUFF_COUNT.
C1_FramesAlternate ==
    \A n \in DOMAIN files : \A k \in 1..Len(files[n]) :
        files[n][k][1] = IF k % 2 = 1 THEN 1 ELSE 2

C1_BatchShape ==
    /\ C1_FramesAlternate
    /\ \A n \in DOMAIN files :
          IF n = file /\ pc \in BatchPcs
          THEN /\ i \in 0..(FIFO_BUFF_COUNT - 1)
               /\ Len(files[n]) % BatchFrames =
                     2 * i + (IF pc = "wr2" THEN 1 ELSE 0)
               /\ pc = "wr2" => files[n][Len(files[n])] = <<1, buf1_7>>
          ELSE Len(files[n]) % BatchFrames = 0

C1_BatchStart ==
    (pc \notin BatchPcs /\ pc' \in BatchPcs)
        => pc = "rec_wait" /\ ADXL1_INT1 /\ pc' = "rd1"

C1_WholeBatches == []C1_BatchShape /\ [][C1_BatchStart]_vars

\* Two batches of a session are in the file.
C1_Witness ==
    /\ pc = "rec_btn"
    /\ file # 0
    /\ Len(files[file]) = 2 * BatchFrames

\* C2: the program moves Idle -> Arming -> Recording -> Draining -> Closing
\* -> Idle; the capture file is appended to only in Draining, opened only by
\* the step that ends Arming and closed only in Closing, so it is open
\* exactly in Recording, Draining and the start of Closing, and no session is
\* armed while a file is open.
C2_Edges ==
    {<<"Boot", "Idle">>, <<"Idle", "Arming">>, <<"Arming", "Recording">>,
     <<"Recording", "Draining">>, <<"Draining", "Closing">>,
     <<"Closing", "Idle">>}

C2_Step ==
    /\ Phase(pc') # Phase(pc) => <<Phase(pc), Phase(pc')>> \in C2_Edges
    /\ files' # files =>
          \/ Phase(pc) = "Draining" /\ file' = file /\ file # 0
          \/ pc = "open_file" /\ file = 0 /\ file' # 0 /\ files'[file'] = <<>>
    /\ file' # file =>
          \/ file = 0 /\ Phase(pc) = "Arming" /\ Phase(pc') = "Recording"
          \/ file' = 0 /\ Phase(pc) = "Closing"

C2_OpenIn ==
    /\ Phase(pc) \in {"Boot", "Idle", "Arming"} => file = 0
    /\ Phase(pc) \in {"Recording", "Draining"} => file # 0
    /\ Phase(pc) = "Closing" => (file # 0 <=> pc \in {"stop_release", "close_file"})

C2_Lifecycle == []C2_OpenIn /\ [][C2_Step]_vars

\* A second session drains into its file after the first file was closed.
C2_Witness ==
    /\ pc = "wr2"
    /\ file = 2
    /\ 1 \in DOMAIN files

\* C3 (as the program behaves): the index is the last line of the counter
\* file, also after a restart; the files on the card are numbered 1..index;
\* the press-then-release cycle seen in Idle arms a session, and a session
\* opens exactly one file, new on the card, numbered one more than the
\* files already there.
C3_LastCount ==
    IF countFile = <<>> THEN 0 ELSE int(countFile[Len(countFile)])

C3_Counter ==
    /\ Phase(pc) # "Boot" => file_count = C3_LastCount
    /\ DOMAIN files =
         1..(C3_LastCount -
               IF pc \in {"arm_display", "arm_standby1", "clear",
                          "arm_standby2", "open_file"} THEN 1 ELSE 0)

C3_Step ==
    /\ DOMAIN files' # DOMAIN files =>
          /\ pc = "open_file"
          /\ file' = Cardinality(DOMAIN files) + 1
          /\ DOMAIN files' = DOMAIN files \cup {file'}
    /\ (pc = "open_file" /\ pc' # pc) => DOMAIN files' # DOMAIN files
    /\ (pc = "wait_release" /\ pc' # pc) => pc' = "led_on"

C3_OneFilePerSession == []C3_Counter /\ [][C3_Step]_vars

\* A second session after a restart that found index 1 on the card.
C3_Witness ==
    /\ restarts = <<1>>
    /\ file = 2
    /\ DOMAIN files = {1, 2}

\* C3 (as stated): every press-then-release cycle of the button the program
\* observes arms a session, which produces a file.
C3_EveryCycleArms ==
    [][(pc \in {"wait_release", "stop_release"} /\ pc' # pc)
          => pc' = "led_on"]_vars

\* C4 (as the program behaves): a session is armed after a press and then
\* a release were seen in Idle; the drain loop goes on while the button
\* reads released (TRUE), leaves on a press (FALSE) sampled between
\* batches, and the file is closed once that press is released.
C4_Step ==
    /\ (pc = "wait_press" /\ pc' # pc) => (btn = FALSE /\ pc' = "wait_release")
    /\ (pc = "wait_release" /\ pc' # pc) => (btn = TRUE /\ pc' = "led_on")
    /\ (pc = "rec_btn" /\ pc' = "rec_wait") => btn = TRUE
    /\ (pc = "rec_btn" /\ pc' = "stop_release") => btn = FALSE
    /\ (pc = "stop_release" /\ pc' # pc) => (btn = TRUE /\ pc' = "close_file")

C4_ClickStartsClickStops == [][C4_Step]_vars

\* The press that stops a session has been sampled after the first batch.
C4_Witness ==
    /\ pc = "stop_release"
    /\ btn = FALSE
    /\ file # 0
    /\ Len(files[file]) = BatchFrames

\* C4 (as stated): the session is active exactly while the button is held:
\* the drain loop goes on while the button reads pressed and leaves when it
\* reads released.
C4_ActiveWhileHeld ==
    [][/\ (pc = "rec_btn" /\ pc' = "rec_wait") => btn = FALSE
       /\ (pc = "rec_btn" /\ pc' = "stop_release") => btn = TRUE]_vars

\* C5: when the file is opened and until the devices are put in measure
\* mode, both devices are in standby and the fill count of both FIFOs
\* reads zero.
C5_FifosEmptied ==
    /\ pc \in {"open_file", "int_enable", "measure1"} =>
          \A d \in Devices : ~Measuring(d) /\ Entries(d) = 0
    /\ pc = "measure2" => (~Measuring(2) /\ Entries(2) = 0)

\* C6: in Idle after a session the watermark interrupt enable bit of device
\* 1 is clear, the Measure bit of both devices is clear, the file is
\* closed, the LED is off and the display shows the index.
C6_IdleQuiescent ==
    (Phase(pc) = "Idle" /\ DOMAIN files # {}) =>
        /\ BitAnd(regs[1][INT_ENABLE], Watermark_enable) = 0
        /\ \A d \in Devices : ~Measuring(d)
        /\ file = 0
        /\ led = 1
        /\ display = ShowNumber(file_count)

\* C7: a batch, once begun, is left only by completing its last iteration;
\* the drain loop is left only from the sampling of the button between
\* batches, on a press; a press sampled there always leaves; and no batch
\* is begun when a frame was already written since the button was pressed
\* and held, so at most one further full batch follows a press.
C7_Step ==
    /\ (pc \in BatchPcs /\ pc' # pc) =>
          \/ pc' \in BatchPcs
          \/ pc = "wr2" /\ i = FIFO_BUFF_COUNT - 1 /\ pc' = "rec_btn"
    /\ (Phase(pc) = "Draining" /\ Phase(pc') # "Draining") =>
          (pc = "rec_btn" /\ btn = FALSE /\ pc' = "stop_release")
    /\ (pc = "rec_btn" /\ btn = FALSE /\ pc' # pc) => pc' = "stop_release"
    /\ (pc = "rec_wait" /\ pc' = "rd1") => ~(btn = FALSE /\ heldWrite)

\* Inside a batch the program has a step to take whatever the button reads.
C7_BatchRuns ==
    pc \in BatchPcs => ENABLED (Read1 \/ Read2 \/ Write1 \/ Write2)

C7_StopAfterBatch == []C7_BatchRuns /\ [][C7_Step]_vars

\* The button was pressed in the wait for the second watermark and held:
\* the second batch was written in full and the press is now sampled.
C7_Witness ==
    /\ pc = "rec_btn"
    /\ btn = FALSE
    /\ heldWrite
    /\ Len(files[file]) = 2 * BatchFrames

\* C8: while INT1 is inactive the program stays in the watermark wait,
\* writes nothing and keeps the file open, whatever the button does.
C8_NoTimeout ==
    [][(pc = "rec_wait" /\ ~ADXL1_INT1) =>
          (pc' = "rec_wait" /\ files' = files /\ file' = file)]_vars

\* Sampling has ended below the watermark and the button is pressed.
C8_Witness ==
    /\ pc = "rec_wait"
    /\ ~ADXL1_INT1
    /\ btn = FALSE
    /\ ticks = run.ticks

\* C9: a FIFO never holds more than FIFO_DEPTH entries, and once device 1
\* has dropped a sample the LED or the display differs from what a session
\* without overrun shows while it drains.
C9_OverrunDetected ==
    /\ \A d \in Devices : Len(fifo[d]) <= FIFO_DEPTH
    /\ (Phase(pc) = "Draining" /\ overrun[1]) =>
          ~(led = 0 /\ display = ShowNumber(file_count))

\* C10: when a record is written both devices have the same output data
\* rate and the same FIFO mode and watermark, and the k-th record of the
\* file holds the k-th sample of device 1 and the k-th sample of device 2.
C10_LockStep ==
    pc = "wr1" =>
        /\ regs[1][BW_RATE] = regs[2][BW_RATE]
        /\ regs[1][FIFO_CTL] = regs[2][FIFO_CTL]
        /\ LET k == Len(files[file]) \div 2 + 1
           IN  buf1_7 = k /\ buf2_7 = k

\* C11: the program never changes INT_ENABLE of device 2, which keeps its
\* reset value with the watermark enable bit clear, and the watermark wait
\* is left only into a batch and only when the watermark interrupt of
\* device 1 is active on its INT1 pin.
C11_Device2Untouched ==
    /\ regs[2][INT_ENABLE] = ResetRegs[INT_ENABLE]
    /\ BitAnd(regs[2][INT_ENABLE], Watermark_enable) = 0

C11_Step ==
    /\ regs'[2][INT_ENABLE] = regs[2][INT_ENABLE]
    /\ (pc = "rec_wait" /\ pc' # pc) =>
          /\ pc' = "rd1"
          /\ BitAnd(regs[1][INT_ENABLE], Watermark_enable) # 0
          /\ Len(fifo[1]) >= Samples(regs[1])

C11_PrimaryOnly == []C11_Device2Untouched /\ [][C11_Step]_vars

\* A batch has begun on the watermark of device 1 while device 2 measures.
C11_Witness ==
    /\ pc = "rd1"
    /\ BitAnd(regs[1][INT_ENABLE], Watermark_enable) # 0
    /\ Measuring(2)
    /\ regs[2][INT_ENABLE] = 0

\* C12: the registers of rate and power mode, data format, FIFO control and
\* interrupt enable and map of a device change only in the configuration
\* steps of setup and in the interrupt enable of arming, and only while its
\* Measure bit is 0; setup and arming put the device in standby first; the
\* two measure() calls are followed by the drain loop, which writes no
\* register.
C12_ConfigRegs == {BW_RATE, INT_ENABLE, INT_MAP, DATA_FORMAT, FIFO_CTL}

C12_InStandby ==
    /\ pc \in {"config1", "int_enable"} => ~Measuring(1)
    /\ pc = "config2" => ~Measuring(2)

C12_Step ==
    /\ \A d \in Devices : \A a \in C12_ConfigRegs :
          regs'[d][a] # regs[d][a] =>
              /\ ~Measuring(d)
              /\ pc \in {"config1", "config2", "int_enable"}
    /\ (pc = "setup1" /\ pc' # pc) =>
          (pc' = "config1" /\ BitAnd(regs'[1][POWER_CTL], Measure) = 0)
    /\ (pc = "setup2" /\ pc' # pc) =>
          (pc' = "config2" /\ BitAnd(regs'[2][POWER_CTL], Measure) = 0)
    /\ (pc = "arm_standby1" /\ pc' # pc) =>
          BitAnd(regs'[1][POWER_CTL], Measure) = 0
    /\ (pc = "measure1" /\ pc' # pc) => pc' = "measure2"
    /\ (pc = "measure2" /\ pc' # pc) => pc' = "rec_btn"
    /\ Phase(pc) = "Draining" => regs' = regs

C12_ConfigInStandby == []C12_InStandby /\ [][C12_Step]_vars

\* The interrupt of device 1 was enabled in standby for a second session.
C12_Witness ==
    /\ pc = "measure1"
    /\ file = 2
    /\ ~Measuring(1)
    /\ BitAnd(regs[1][INT_ENABLE], Watermark_enable) # 0

\* C13: from the drain loop to the close of the file the program writes no
\* register of either device, and at every point after setup FIFO_CTL of
\* device 1 holds FIFO mode with the watermark count and BW_RATE of both
\* devices holds the rate given at setup.
C13_Locked ==
    (Phase(pc) = "Draining" \/ pc \in {"stop_release", "close_file"})
        => regs' = regs

C13_AsSetUp ==
    Phase(pc) # "Boot" =>
        /\ regs[1][FIFO_CTL] = FIFO_MODE_FIFO + FIFO_BUFF_COUNT
        /\ \A d \in Devices : regs[d][BW_RATE] = ODR_1600HZ

C13_ConfigLocked == []C13_AsSetUp /\ [][C13_Locked]_vars

\* A capture of two batches is about to be closed.
C13_Witness ==
    /\ pc = "close_file"
    /\ file # 0
    /\ Len(files[file]) = 2 * BatchFrames
    /\ \A d \in Devices : Measuring(d)

\* The bits of its register a setter call is about.
SetterField(c) ==
    CASE c.f \in {"low_power_mode", "normal_power_mode"} -> LOW_POWER
      [] c.f = "odr" -> \b00001111
      [] c.f \in {"standby", "measure"} -> Measure
      [] c.f \in {"int_enable", "int_disable", "int_map_int1",
                  "int_map_int2"} -> c.arg
      [] c.f \in {"begin_self_test", "end_self_test"} -> SELF_TEST
      [] c.f \in {"spi_3_wire", "spi_4_wire"} -> SPI
      [] c.f \in {"interrupt_active_low", "interrupt_active_high"}
            -> INT_INVERT
      [] c.f \in {"left_justify", "right_justify"} -> Justify
      [] c.f \in {"FIFO_Mode_Bypass", "FIFO_Mode_FIFO", "FIFO_Mode_Stream",
                  "FIFO_Mode_Trigger"} -> \b11000000
      [] c.f \in {"trigger_int1", "trigger_int2"} -> Trigger
      [] c.f = "set_samples" -> \b00011111

\* The registers of the device after the k-th call.
AfterCall(k) == IF k = Len(calls) THEN regs[1] ELSE calls[k + 1].was

\* C16: every call of a single-field setter hands mem_write a byte, leaves
\* the bits of its register outside its field as they were, and leaves the
\* other registers as they were.
C16_SetterFrame ==
    \A k \in 1..Len(calls) :
        LET c == calls[k]
            a == SetterReg(c.f)
        IN  c.f # "set_samples" =>
              /\ c.data \in 0..255
              /\ BitClear(AfterCall(k)[a], SetterField(c))
                    = BitClear(c.was[a], SetterField(c))
              /\ \A b \in Registers \ {a} : AfterCall(k)[b] = c.was[b]

\* odr(ODR_1600HZ) on a register of all ones.
C16_Witness ==
    /\ Len(calls) = 1
    /\ calls[1].f = "odr"
    /\ calls[1].arg = ODR_1600HZ
    /\ calls[1].was[BW_RATE] = 255
    /\ regs[1][BW_RATE] = 254

\* C17: set_samples(n) hands mem_write a byte, leaves bits 7..5 of FIFO_CTL
\* as they were, and sets the samples field (bits 4..0) to n clamped, for
\* every clamped n the field can hold.
C17_Clamped(n) == IF n > 32 THEN 32 ELSE IF n < 0 THEN 0 ELSE n

C17_SamplesFrame ==
    \A k \in 1..Len(calls) :
        LET c == calls[k]
        IN  c.f = "set_samples" =>
              /\ c.data \in 0..255
              /\ AfterCall(k)[FIFO_CTL] \div 32 = c.was[FIFO_CTL] \div 32
              /\ C17_Clamped(c.arg) < 32 =>
                    AfterCall(k)[FIFO_CTL] % 32 = C17_Clamped(c.arg)

\* C18 (as the driver behaves): a field turned on and then off with the
\* paired setters ends with its bits clear and every other bit and register
\* as it was, which is the original byte when the field was off before.
C18_Off(f) ==
    CASE f = "low_power_mode"       -> "normal_power_mode"
      [] f = "measure"              -> "standby"
      [] f = "int_enable"           -> "int_disable"
      [] f = "int_map_int2"         -> "int_map_int1"
      [] f = "begin_self_test"      -> "end_self_test"
      [] f = "spi_3_wire"           -> "spi_4_wire"
      [] f = "interrupt_active_low" -> "interrupt_active_high"
      [] f = "left_justify"         -> "right_justify"
      [] f = "trigger_int2"         -> "trigger_int1"
      [] OTHER                      -> "none"

C18_OnThenOff ==
    /\ Len(calls) = 2
    /\ calls[2].f = C18_Off(calls[1].f)
    /\ calls[2].arg = calls[1].arg

C18_TogglePairClears ==
    C18_OnThenOff =>
        LET c == calls[1]
            a == SetterReg(c.f)
        IN  /\ regs[1] = [c.was EXCEPT ![a] = BitClear(@, SetterField(c))]
            /\ BitAnd(c.was[a], SetterField(c)) = 0 => regs[1] = c.was

\* measure() then standby() on a register with the Measure bit clear.
C18_Witness ==
    /\ C18_OnThenOff
    /\ calls[1].f = "measure"
    /\ calls[1].was[POWER_CTL] = \b10100101
    /\ regs[1][POWER_CTL] = \b10100101

\* C18 (as stated): for every initial byte a field turned on and then off
\* leaves the register at its original value.
C18_TogglePairRestores ==
    C18_OnThenOff => regs[1] = calls[1].was

\* C19: set_samples(n) with n < 0 leaves the registers as set_samples(0)
\* from the same byte, with n > 32 as set_samples(32), and every n tried is
\* accepted.
C19_AsClamped ==
    \A k \in 1..Len(calls) :
        LET c == calls[k]
            r0 == set_samples(c.was, 0)
            r32 == set_samples(c.was, 32)
        IN  c.f = "set_samples" =>
              /\ c.arg < 0 =>
                    AfterCall(k) = [a \in Registers |-> r0[a] % 256]
              /\ c.arg > 32 =>
                    AfterCall(k) = [a \in Registers |-> r32[a] % 256]

C19_Accepted ==
    Len(calls) < MaxCalls =>
        \A n \in SampleCounts :
            ENABLED CallOf([f |-> "set_samples", arg |-> n])

C19_ClampRelation == C19_AsClamped /\ C19_Accepted

\* set_samples(50) on FIFO mode with no samples set.
C19_Witness ==
    /\ Len(calls) = 1
    /\ calls[1].f = "set_samples"
    /\ calls[1].arg = 50
    /\ calls[1].was[FIFO_CTL] = FIFO_MODE_FIFO
    /\ regs[1] = [a \in Registers |->
                    set_samples(calls[1].was, 32)[a] % 256]

\* ---------------------------------------------------------------- C14
\* C14: every register transaction drives the chip-select of its device low
\* before the exchange and high again after it on every exit path, a bus
\* failure included: whenever a transaction stops being in progress, the
\* chip-select of its device is high.
C14_Bracketed ==
    [][(tx.step \in {"low", "done"} /\ tx'.step \notin {"low", "done"})
          => cs'[tx.dev] = 1]_vars

\* ---------------------------------------------------------------- C15
\* C15: the two chip-selects are never low together: while a transaction is
\* in progress on one device, the chip-select of the other device is high.
C15_OneSelected ==
    tx.step \in {"low", "done"} => \A d \in Devices \ {tx.dev} : cs[d] = 1

\* ---------------------------------------------------------------- C20
\* The acceleration, in 1/10000 g, of the word of sample k on an axis.
C20_AccelOf(k, ax) == twos_comp(SampleWord(k, ax), 16) * SCALE_FACTOR

\* C20: what get_x/y/z_acceleration returns combines the low and the high
\* byte of one and the same sample, and is the acceleration of that sample,
\* whenever the device replaces its sample between transactions.
C20_BurstCoherent ==
    ret.acc # NoAcc =>
        /\ ret.acc.lsbOf = ret.acc.msbOf
        /\ ret.acc.value = C20_AccelOf(ret.acc.lsbOf, ret.acc.axis)

\* The two single-byte getters have returned the low byte of one sample and
\* the high byte of the next, a value no sample has, and the burst getter has
\* read the same axis.
C20_Witness ==
    /\ ret.naive # NoAcc
    /\ ret.naive.lsbOf # ret.naive.msbOf
    /\ \A k \in 0..MaxSample :
          ret.naive.value # C20_AccelOf(k, ret.naive.axis)
    /\ ret.acc # NoAcc
    /\ ret.acc.axis = ret.naive.axis
    /\ ret.acc.value < 0

\* ---------------------------------------------------------------- C21
\* C21: twos_comp(v, 16) is, for every v in 0..65535, the signed value s in
\* -32768..32767 with s mod 65536 = v: v itself when bit 15 is clear and
\* v - 65536 when it is set; the method of the driver and the function of
\* helperFunctions return the same result.
C21_SignedValue ==
    pc = "converted" =>
        /\ conv.driver \in -32768..32767
        /\ conv.driver % 65536 = conv.v
        /\ conv.driver = IF conv.v < 32768 THEN conv.v ELSE conv.v - 65536
        /\ conv.helper = conv.driver

\* The smallest word with bit 15 set has been converted to -32768.
C21_Witness ==
    /\ pc = "converted"
    /\ conv.v = 32768
    /\ conv.driver = -32768
    /\ conv.helper = -32768

\* ---------------------------------------------------------------- C22
\* C22: a raw word w decodes to 488 * twos_comp(w, 16) ten-thousandths of a
\* g: 0x0000 to 0, 0x0001 to 488, 0xFFFF to -488; get_x/y/z_acceleration and
\* decode_data compute the same value from the same low and high byte.
C22_Scaled ==
    pc = "converted" =>
        /\ conv.live =
              488 * (IF conv.v < 32768 THEN conv.v ELSE conv.v - 65536)
        /\ conv.offline = conv.live
        /\ conv.v = 0 => conv.live = 0
        /\ conv.v = 1 => conv.live = 488
        /\ conv.v = 65535 => conv.live = -488

\* The word 0xFFFF has been decoded as -0.0488 g by both.
C22_Witness ==
    /\ pc = "converted"
    /\ conv.v = 65535
    /\ conv.live = -488
    /\ conv.offline = -488

\* ---------------------------------------------------------------- C23
\* The documented rate of each code 0b0000 .. 0b1111, in hundredths of a hertz.
C23_Documented ==
    <<10, 20, 39, 78, 156, 313, 625, 1250, 2500, 5000, 10000, 20000, 40000,
      80000, 160000, 320000>>

\* C23: get_ODR returns the documented rate of the code in the low 4 bits of
\* BW_RATE whatever the upper 4 bits are; looking up a value that is not in
\* the table gives the not-found indicator.
C23_RateOfCode ==
    conv.v >= 0 =>
        /\ conv.odr = C23_Documented[(conv.v % 16) + 1]
        /\ conv.v >= 16 => get_ODR_scan(conv.v, ODR_VALUES) = 0

\* get_ODR has returned 3.13 Hz for a BW_RATE whose upper bits are all set.
C23_Witness ==
    /\ conv.v = \b11110101
    /\ conv.odr = 313
    /\ pc = "open_log"

\* ---------------------------------------------------------------- C24
\* The rows decode_data has written are those of the records read so far,
\* in record order, after the header.
C24_RowsSoFar ==
    /\ Len(dataFile.data) = 1 + logFile.pos
    /\ dataFile.data[1] = Header
    /\ \A k \in 1..logFile.pos :
          dataFile.data[k + 1].acc = DecodeLine(logFile.data[k])

\* C24: decode_data run on a capture of k whole records writes one header
\* line and then k data rows, one per record in record order, and closes
\* both files.
C24_HeaderAndRows ==
    /\ pc \in {"read", "close_log", "close_data", "decoded"} => C24_RowsSoFar
    /\ pc = "decoded" =>
          /\ logFile.pos = Len(logFile.data)
          /\ ~ logFile.open
          /\ ~ dataFile.open

\* decode_data has finished on a capture of three different records, and on
\* an empty one nothing but the header is written.
C24_Witness ==
    /\ pc = "decoded"
    /\ Len(logFile.data) = MaxRecords
    /\ Len(dataFile.data) = MaxRecords + 1
    /\ logFile.data[1] # logFile.data[2]
    /\ logFile.data[2] # logFile.data[3]
    /\ dataFile.data[2].acc # dataFile.data[3].acc

\* ---------------------------------------------------------------- C25
\* C25: the time of row i, counted from 0, is i / ODR to 6 decimal places:
\* in microseconds, i * 1000000 / ODR rounded.
C25_TimeOfRow ==
    conv.odr > 0 =>
        \A k \in 2..Len(dataFile.data) :
            dataFile.data[k].time \in Rounded((k - 2) * 100000000, conv.odr)

\* ---------------------------------------------------------------- C26
\* Bytes 1-6 and 8-13 of a record.
C26_Payload(rec) == [k \in (2..7) \cup (9..14) |-> rec[k]]

\* The signed value of the word with low byte lo and high byte hi, scaled.
C26_Word(lo, hi) ==
    488 * (IF hi >= 128 THEN hi * 256 + lo - 65536 ELSE hi * 256 + lo)

\* C26: the six values of a row are the words formed low byte then high byte
\* from bytes 1-6 and 8-13 of its record, in X, Y, Z order; rows of records
\* that differ only in bytes 0 and 7 hold the same values.
C26_PayloadOnly ==
    /\ \A k \in 2..Len(dataFile.data) :
          LET rec == logFile.data[k - 1]
          IN  dataFile.data[k].acc =
                 <<C26_Word(rec[2], rec[3]), C26_Word(rec[4], rec[5]),
                   C26_Word(rec[6], rec[7]), C26_Word(rec[9], rec[10]),
                   C26_Word(rec[11], rec[12]), C26_Word(rec[13], rec[14])>>
    /\ \A j, k \in 2..Len(dataFile.data) :
          C26_Payload(logFile.data[j - 1]) = C26_Payload(logFile.data[k - 1])
             => dataFile.data[j].acc = dataFile.data[k].acc

\* Two records that differ in bytes 0 and 7 only have been decoded.
C26_Witness ==
    /\ Len(dataFile.data) >= 3
    /\ logFile.data[1] # logFile.data[2]
    /\ C26_Payload(logFile.data[1]) = C26_Payload(logFile.data[2])
    /\ dataFile.data[2].acc = dataFile.data[3].acc

\* ---------------------------------------------------------------- C27
\* C27: the first byte sent is the register address with bit 7 set for a
\* single-byte read, with bits 7 and 6 set for a burst read, and with bit 7
\* clear for a write; the command of the drain loop is DATAX0 with bits 7
\* and 6 set followed by 6 filler bytes, and its exchange returns the six
\* data bytes X, Y, Z of one sample.
C27_CommandByte ==
    tx.step \in {"low", "done"} =>
        /\ tx.kind = "mem_read" => tx.cmd = BitOr(tx.addr, \h80)
        /\ tx.kind = "mem_read_2bytes" =>
              tx.cmd = BitOr(BitOr(tx.addr, \h80), \h40)
        /\ tx.kind = "mem_write" =>
              tx.cmd = tx.addr /\ BitAnd(tx.cmd, \h80) = 0
        /\ tx.kind = "burst" =>
              /\ tx.cmd = \b11110010
              /\ tx.cmd = BitOr(BitOr(\h32, \h80), \h40)
              /\ tx.len = 7
              /\ tx.step = "done" =>
                    tx.got = [j \in 1..6 |->
                                [byte |-> DataByte(dataReg[tx.dev],
                                                   DATAX0 + j - 1),
                                 of |-> dataReg[tx.dev]]]

\* A batch read of device 1 has returned the six bytes of its second sample.
C27_Witness ==
    /\ tx.kind = "burst"
    /\ tx.step = "done"
    /\ tx.dev = 1
    /\ dataReg[1] = 1
    /\ Len(tx.got) = 6
    /\ tx.got[1].byte # tx.got[3].byte

\* ---------------------------------------------------------------- C28
\* C28: after a storage fault the program has halted without an uncaught
\* exception and the display shows a pattern of its own, neither blank nor
\* a file index.
C28_FaultSignalled ==
    fault = "storage" =>
        /\ pc # "raised"
        /\ display.blink # 0
        /\ display.number = -1

\* ---------------------------------------------------------------- C29
\* C29: a failed bus exchange ends the program where it is, the drain loop
\* included, and from then on no capture file changes.
C29_FatalForSession ==
    [][/\ fault' = "bus" => pc' = "raised"
       /\ fault = "bus" => (files' = files /\ fault' = "bus")]_vars

\* An exchange of the drain loop has failed in the middle of a batch, with
\* records already in the file, and the devices have gone on sampling since.
C29_Witness ==
    /\ fault = "bus"
    /\ file # 0
    /\ Len(files[file]) > 0
    /\ i > 0
    /\ lag > 0

\* ---------------------------------------------------------------- C30
\* C30: whenever the program waits in Idle for a press, the LED is off and
\* the display shows, not blinking, the index of the last session's file,
\* which is file_count and the last line of the counter file.
C30_IdleShowsLastIndex ==
    pc = "wait_press" =>
        /\ led = 1
        /\ display = ShowNumber(file_count)
        /\ file_count = int(countFile[Len(countFile)])
        /\ \A k \in DOMAIN files : k <= file_count
        /\ DOMAIN files # {} => file_count \in DOMAIN files

\* The program is back in Idle after its second session.
C30_Witness ==
    /\ pc = "wait_press"
    /\ file_count = 2
    /\ DOMAIN files = {1, 2}
    /\ display.number = 2
    /\ led = 1

\* ---------------------------------------------------------------- C31
\* C31: the file decode_data(file_count, ...) reads is the capture written
\* by session file_count, data<file_count>.bin, and the file it writes is
\* the text file of the same index.
C31_ReadsSessionCapture ==
    logFile.open =>
        /\ logFile.name = <<"data", str(file_count), ".bin">>
        /\ dataFile.name = <<"data", str(file_count), ".txt">>

\* ---------------------------------------------------------------- C38
\* C38: when the capture cannot be opened, decode_data finishes without an
\* exception, having written no data row and closed the text file.
C38_MissingCaptureHandled ==
    (/\ logFile = NoFile
     /\ pc \notin {"decode", "delta", "open_log"}
     /\ fault # "ZeroDivisionError") =>
        /\ fault = "none"
        /\ pc = "decoded"
        /\ Len(dataFile.data) = 1
        /\ ~ dataFile.open

\* ---------------------------------------------------------------- C39
\* C39: every set_<REGISTER>(data) makes exactly one write of data to the
\* address the register map gives the register and raises nothing, the
\* get_<REGISTER>() that follows returns data, and test_write makes its
\* three offset writes.
C39_SetThenGet ==
    /\ fault = "none"
    /\ \A k \in 1..Len(calls) :
          calls[k].wrote = <<[addr |-> RegisterMap[calls[k].f],
                              data |-> calls[k].arg]>>
    /\ pc = "got" => ret.byte = calls[Len(calls)].arg
    /\ pc = "written" => Len(calls) = 3

\* ---------------------------------------------------------------- C32
\* The device-1 samples of a capture file, in the order written.
Dev1Frames(f) ==
    LET own == SelectSeq(f, LAMBDA fr : fr[1] = 1)
    IN  [k \in 1..Len(own) |-> own[k][2]]

\* C32: every burst read of device 1 in the drain loop finds a sample
\* queued: at each read of a batch the FIFO of device 1 holds at least the
\* samples the rest of the batch pops, so no read repeats the sample before
\* it and the device-1 samples of the file are all different.
C32_ReadsPopQueued ==
    /\ pc = "rd1" => Entries(1) >= FIFO_BUFF_COUNT - i
    /\ file # 0 =>
          LET own == Dev1Frames(files[file])
          IN  /\ \A k \in 1..Len(own) - 1 : own[k] < own[k + 1]
              /\ pc \in {"rd2", "wr1"} /\ own # <<>> =>
                    own[Len(own)] < buf1_7

\* The last read of a batch pops the last sample queued.
C32_Witness ==
    /\ pc = "rd1"
    /\ i = FIFO_BUFF_COUNT - 1
    /\ Len(fifo[1]) = 1
    /\ Len(files[file]) = 2 * i

\* ---------------------------------------------------------------- C37
\* The device-1 sample read from the bus and not yet written to the file.
C37_InHand == IF pc \in {"rd2", "wr1"} THEN <<buf1_7>> ELSE <<>>

\* The samples of device 1 on their way from the device to the file: those
\* written, the one in hand, those queued.
C37_Taken == Dev1Frames(files[file]) \o C37_InHand \o fifo[1]

C37_Recording ==
    pc \in {"measure2", "rec_btn", "rec_wait", "rd1", "rd2", "wr1", "wr2",
            "stop_release", "close_file"}

\* C37: while device 1 has lost no sample to a full FIFO, the device-1
\* frames of the file are the samples device 1 produced since it entered
\* measure mode, in order, without gap or duplicate, up to the last batch
\* read: the samples written, in hand and queued are samples 1, 2, ... up
\* to the newest one produced.
C37_Exact ==
    (C37_Recording /\ ~ overrun[1]) =>
        LET taken == C37_Taken
        IN  /\ Len(taken) = produced[1]
            /\ \A k \in 1..Len(taken) : taken[k] = k

\* A session closes two whole batches of device 1 with no sample lost.
C37_Witness ==
    /\ pc = "close_file"
    /\ ~ overrun[1]
    /\ Len(Dev1Frames(files[file])) = 2 * FIFO_BUFF_COUNT

\* ---------------------------------------------------------------- C34
\* While clear_accel_buf runs, each pass of its loop has removed exactly the
\* oldest sample queued; when it has returned, nothing is queued and the
\* count returned is the number queued at the call.
C34_CountsEach ==
    LET n == calls[1].queued
    IN  /\ pc = "clear" =>
              /\ count <= n
              /\ fifo[1] = [k \in 1..(n - count) |-> count + k]
        /\ pc = "arm_standby2" =>
              /\ count = n
              /\ Entries(1) = 0

\* C34: clear_accel_buf on a device in standby terminates, leaves the fill
\* count of the FIFO at zero and returns the number of samples that were
\* queued when it was called, each pass of its loop removing one of them.
C34_ClearsAndCounts == [] C34_CountsEach /\ <> (pc = "arm_standby2")

\* A full FIFO has been emptied.
C34_Witness ==
    /\ pc = "arm_standby2"
    /\ calls[1].queued = FIFO_DEPTH
    /\ count = FIFO_DEPTH
    /\ fifo[1] = <<>>

\* ---------------------------------------------------------------- C33
\* C33: the program consumes the button as whole press-then-release pairs.
\* From the moment it sees the button pressed, to start or to stop a
\* session, until that press is released, it does nothing but wait for the
\* release: no session is armed, none is closed, and so the press that
\* stops a session cannot also start the next one.
C33_PressThenRelease ==
    seenHeld =>
        /\ btn = FALSE
        /\ pc \in {"wait_release", "stop_release"}
        /\ pc = "wait_release" => file = 0
        /\ pc = "stop_release" => file # 0

\* The press that stops a session with a batch on file is being held.
C33_Witness ==
    /\ seenHeld
    /\ pc = "stop_release"
    /\ Len(files[file]) = 2 * FIFO_BUFF_COUNT

\* ---------------------------------------------------------------- C35
\* C35: while the card-detect pin reports no card the program has not gone
\* past the card check: nothing is mounted or read from the card, no
\* session is armed, and once it has seen the pin it waits with 'SD'
\* blinking on the display.
C35_WaitsForCard ==
    cd =>
        /\ pc \in {"card_detect", "card_wait"}
        /\ pc = "card_wait" => display = ShowSD
        /\ countFile = <<>>
        /\ file_count = 0
        /\ files = <<>>

\* The program is waiting for a card with 'SD' blinking.
C35_Witness ==
    /\ cd
    /\ pc = "card_wait"
    /\ display = ShowSD

\* ---------------------------------------------------------------- C36
\* C36: whenever the program is about to open an output file, power having
\* been lost at any point before or not, the index in the name is the last
\* line of the closed counter file and is greater than the index of every
\* output file on the card: no name is opened twice, and the indices only
\* grow across restarts.
C36_FreshName ==
    pc = "open_file" =>
        /\ int(countFile[Len(countFile)]) = file_count
        /\ \A k \in DOMAIN files : k < int(str(file_count))

\* Power was lost between the two writes of a frame pair of session 1, and
\* the program is about to open the file of session 2.
C36_Witness ==
    /\ pc = "open_file"
    /\ restarts = <<1>>
    /\ file_count = 2
    /\ DOMAIN files = {1}
    /\ Len(files[1]) % 2 = 1

=============================================================================
